---- MODULE Spec2Model ----
(***************************************************************************)
(* A model of the TimesFM forecasting pipeline of                          *)
(* src/transformers/models/timesfm/modular_timesfm.py: the forecast driver *)
(* TimesFmModelForPrediction.forward with _preprocess, the moving-average  *)
(* decomposition, the quantile loss and the construction of the attention  *)
(* block.                                                                  *)
(*                                                                         *)
(* Numbers.  Floating-point values are modelled as exact rationals.  A     *)
(* series value is an integer count of 1/Unit, where Unit is a common      *)
(* multiple of every window size, so that a moving average of input values *)
(* is again an integer count.  A quantile level is an integer count of     *)
(* tenths.  A mean is kept as a fraction [num, den].                       *)
(*                                                                         *)
(* Tensors.  A 1-d tensor is [ndim |-> 1, data |-> <<...>>]; a 0-d tensor  *)
(* (a scalar) is [ndim |-> 0, data |-> <<v>>].  A 2-d tensor is a sequence *)
(* of rows; a 3-d tensor (batch, time, channel) is a sequence of rows of   *)
(* channel tuples.                                                         *)
(***************************************************************************)
EXTENDS Integers, Sequences, FiniteSets, TLC

\* ---------------------------------------------------------------- bounds
\* longest input series
MaxLen == 3
\* largest batch
MaxBatch == 2
\* patch_len of the configuration
PatchLen == 2
\* context_len is PatchLen * k for k in 1..MaxPatches
MaxPatches == 2
\* horizon_len is in 1..MaxHorizon
MaxHorizon == 2
\* forecast_context_len is None or in 1..MaxFc
MaxFc == 3
\* window_size is None or in 1..MaxWindow
MaxWindow == 2
\* future_target is None or a constant tensor of a value in 0..MaxTarget
MaxTarget == 0
\* timesfm_moving_average alone: the values of a series are in -MaxVal..MaxVal
MaxVal == 1
\* _quantile_loss alone: the time length of predictions and targets
MaxLossLen == 2
\* the attention block alone: num_heads and num_key_value_heads are in 1..MaxHeads
MaxHeads == 3
\* the attention block alone: head_dim is in 1..MaxHeadDim
MaxHeadDim == 2
\* the attention block alone: layer_idx is in 0..MaxLayerIdx
MaxLayerIdx == 1

\* Python's Optional[...]: None, or a value
None == [is_none |-> TRUE]

Some(v) == [is_none |-> FALSE, val |-> v]

RECURSIVE Factorial(_)
Factorial(n) == IF n <= 1 THEN 1 ELSE n * Factorial(n - 1)

\* one input unit, in counts of 1/Unit
Unit == Factorial(MaxWindow)

\* ------------------------------------------------------ sequence helpers
RECURSIVE SumSeq(_)
SumSeq(s) == IF s = <<>> THEN 0 ELSE Head(s) + SumSeq(Tail(s))

RECURSIVE MinSeq(_)
MinSeq(s) ==
    IF Len(s) = 1 THEN s[1]
    ELSE LET m == MinSeq(Tail(s)) IN IF s[1] < m THEN s[1] ELSE m

Min2(a, b) == IF a < b THEN a ELSE b

Max2(a, b) == IF a > b THEN a ELSE b

Abs(a) == IF a < 0 THEN -a ELSE a

Zeros(n) == [i \in 1..n |-> 0]

Ones(n) == [i \in 1..n |-> 1]

\* SliceLast taking the first k items, s[:k]
SliceLastFromFront(s, k) ==
    IF k = 0 \/ k >= Len(s) THEN s ELSE SubSeq(s, 1, k)

\* Python s[-k:] for k >= 0: the last k items, all of s when k >= len(s);
\* -0 is 0, so s[-0:] is all of s.
SliceLast(s, k) ==
    IF k = 0 \/ k >= Len(s) THEN s ELSE SubSeq(s, Len(s) - k + 1, Len(s))

\* Python s[0:k] for k >= 0
SliceFirst(s, k) == IF k >= Len(s) THEN s ELSE SubSeq(s, 1, k)

\* Python s[0::2] and s[1::2]
EvenRows(s) == [i \in 1..((Len(s) + 1) \div 2) |-> s[2 * i - 1]]

OddRows(s) == [i \in 1..(Len(s) \div 2) |-> s[2 * i]]

RECURSIVE Flatten(_)
Flatten(ss) == IF ss = <<>> THEN <<>> ELSE Head(ss) \o Flatten(Tail(ss))

Tensor1(s) == [ndim |-> 1, data |-> s]

Tensor0(v) == [ndim |-> 0, data |-> <<v>>]

\* -------------------------------------------------- timesfm_moving_average
\* F.pad(arr, (window_size - 1, 0), "constant", 0)
PadFront(arr, n) == Zeros(n) \o arr

\* F.conv1d of the padded series with the kernel ones(window_size) /
\* window_size: one output per position of the kernel, no padding.
Conv1dMean(arr_padded, window_size) ==
    [t \in 1..(Len(arr_padded) - window_size + 1) |->
        SumSeq(SubSeq(arr_padded, t, t + window_size - 1)) \div window_size]

\* Tensor.squeeze() of the (1, 1, L) convolution output: every dimension of
\* size 1 is removed, the time dimension too when L = 1.
Squeeze(s) == IF Len(s) = 1 THEN Tensor0(s[1]) ELSE Tensor1(s)

\* a - b for a 1-d tensor a and a 0-d or 1-d tensor b (broadcasting)
TensorSub(a, b) ==
    Tensor1([i \in 1..Len(a.data) |->
        a.data[i] - (IF b.ndim = 0 THEN b.data[1] ELSE b.data[i])])

timesfm_moving_average(arr, window_size) ==
    LET arr_padded == PadFront(arr.data, window_size - 1)
        smoothed_arr == Squeeze(Conv1dMean(arr_padded, window_size))
    IN  <<smoothed_arr, TensorSub(arr, smoothed_arr)>>

\* ------------------------------------------------------------------ state
VARIABLES
    config,                     \* TimesFmConfig: patch_len, context_len, horizon_len, quantiles
    horizon_len,                \* self.horizon_len
    weights,                    \* the parameters of the decoder and of the forecast head
    call_inputs,                \* forward's argument inputs, as passed
    forecast_context_len,       \* forward's argument forecast_context_len
    window_size,                \* forward's argument window_size
    return_forecast_on_context, \* forward's argument, drawn where forward first reads it
    truncate_negative,          \* forward's argument, drawn where forward first reads it
    future_target,              \* forward's argument, drawn where forward first reads it
    fcontext_len, inputs, inp_min, freq,
    input_ts, input_padding, inp_freq,
    final_out, context_len, full_outputs,
    output_patch_len, num_decode_patches, step_index,
    mean_outputs, loss,
    pc,                         \* the place forward has reached
    err,                        \* the exception forward raised, or None
    result,                     \* the TimesFmOutputForPrediction returned, or None
    fn,                         \* the function or constructor called on its own
    fn_args,                    \* its arguments
    fn_ret                      \* what it returned or raised, or None

vars == <<config, horizon_len, weights, call_inputs, forecast_context_len, window_size,
          return_forecast_on_context, truncate_negative, future_target,
          fcontext_len, inputs, inp_min, freq, input_ts, input_padding, inp_freq,
          final_out, context_len, full_outputs, output_patch_len, num_decode_patches,
          step_index, mean_outputs, loss, pc, err, result, fn, fn_args, fn_ret>>

\* the model and the arguments forward reads at its start
callVars == <<config, horizon_len, weights, call_inputs, forecast_context_len, window_size>>

\* a function called on its own
fnVars == <<fn, fn_args, fn_ret>>

\* an argument forward has not read yet, and one it has read
Unread == [read |-> FALSE]

Arg(v) == [read |-> TRUE, val |-> v]

IsSet(a) == a.read /\ a.val

\* a local forward has not assigned yet
Unset == "unset"

\* config.quantiles, in tenths
Quantiles == <<1, 5, 9>>

\* ------------------------------------------------------------- _preprocess
\* PreprocessOne with the zeros appended after the series, not before it
PreprocessOneBackPad(ts, ctx_len, hor_len) ==
    LET input_len == Len(ts)
        padding == Zeros(input_len + hor_len)
    IN  IF input_len < ctx_len
        THEN LET num_front_pad == ctx_len - input_len
             IN  [ts |-> ts \o Zeros(num_front_pad),
                  padding |-> Ones(num_front_pad) \o padding]
        ELSE IF input_len > ctx_len
        THEN [ts |-> SliceLast(ts, ctx_len),
              padding |-> SliceLast(padding, ctx_len + hor_len)]
        ELSE [ts |-> ts, padding |-> padding]

\* PreprocessOne with the pad mask of a long series cut to context_len,
\* without the horizon
PreprocessOneShortMask(ts, ctx_len, hor_len) ==
    LET input_len == Len(ts)
        padding == Zeros(input_len + hor_len)
    IN  IF input_len < ctx_len
        THEN LET num_front_pad == ctx_len - input_len
             IN  [ts |-> Zeros(num_front_pad) \o ts,
                  padding |-> Ones(num_front_pad) \o padding]
        ELSE IF input_len > ctx_len
        THEN [ts |-> SliceLast(ts, ctx_len),
              padding |-> SliceLast(padding, ctx_len)]
        ELSE [ts |-> ts, padding |-> padding]

\* PreprocessOne with the pad mask of a short series left without its ones
PreprocessOneUnpaddedMask(ts, ctx_len, hor_len) ==
    LET input_len == Len(ts)
        padding == Zeros(input_len + hor_len)
    IN  IF input_len < ctx_len
        THEN LET num_front_pad == ctx_len - input_len
             IN  [ts |-> Zeros(num_front_pad) \o ts,
                  padding |-> padding]
        ELSE IF input_len > ctx_len
        THEN [ts |-> SliceLast(ts, ctx_len),
              padding |-> SliceLast(padding, ctx_len + hor_len)]
        ELSE [ts |-> ts, padding |-> padding]

\* One pass of the loop of _preprocess: the padded series and its pad mask.
PreprocessOne(ts, ctx_len, hor_len) ==
    LET input_len == Len(ts)
        padding == Zeros(input_len + hor_len)
    IN  IF input_len < ctx_len
        THEN LET num_front_pad == ctx_len - input_len
             IN  [ts |-> Zeros(num_front_pad) \o ts,
                  padding |-> Ones(num_front_pad) \o padding]
        ELSE IF input_len > ctx_len
        THEN [ts |-> SliceLast(ts, ctx_len),
              padding |-> SliceLast(padding, ctx_len + hor_len)]
        ELSE [ts |-> ts, padding |-> padding]

\* ts.shape[0] raises IndexError on a 0-d tensor
HasShape0(ts) == ts.ndim >= 1

\* _preprocess(inputs, freq): the stacked series, pad masks and frequencies,
\* or the exception of the first series that has no dimension 0.
Preprocess(ins, fr, ctx_len, hor_len) ==
    IF \E i \in 1..Len(ins) : ~HasShape0(ins[i])
    THEN [raised |-> "IndexError"]
    ELSE [raised |-> "",
          input_ts |-> [i \in 1..Len(ins) |-> PreprocessOne(ins[i].data, ctx_len, hor_len).ts],
          input_padding |->
              [i \in 1..Len(ins) |-> PreprocessOne(ins[i].data, ctx_len, hor_len).padding],
          inp_freq |-> [i \in 1..Len(ins) |-> <<fr[i]>>]]

\* ------------------------------------------------- the decoder and its head
\* The decoder reshapes its window with view(bsize, -1, patch_len), which
\* raises RuntimeError unless patch_len divides the window's length.
ViewOk(window_len, patch_len) == window_len % patch_len = 0

\* The hidden state of patch n of one series: the network is causal, so it
\* reads the unpadded values of patches 1..n.  The network's arithmetic is
\* not modelled; the sum, scaled by the weights, stands for it.
Hidden(w, row_ts, row_pad, n, patch_len) ==
    w * SumSeq([k \in 1..(n * patch_len) |-> row_ts[k] * (1 - row_pad[k])])

\* _postprocess_output: the forecast head gives, for every patch n, one
\* value per output step t in 1..config.horizon_len and channel c in
\* 1..(1 + len(config.quantiles)).
FpropOne(w, row_ts, row_pad, n, t, c, patch_len) ==
    Hidden(w, row_ts, row_pad, n, patch_len) + Unit * (t - c)

\* fprop_outputs of one series: [n][t][c]
FpropOutputs(w, row_ts, row_pad, cfg) ==
    [n \in 1..(Len(row_ts) \div cfg.patch_len) |->
        [t \in 1..cfg.horizon_len |->
            [c \in 1..(1 + Len(cfg.quantiles)) |->
                FpropOne(w, row_ts, row_pad, n, t, c, cfg.patch_len)]]]

\* fprop_outputs[:, :-1, :patch_len, :] reshaped to (B, -1, C), one series
ContextForecast(fprop, patch_len) ==
    Flatten([n \in 1..(Len(fprop) - 1) |-> SliceFirst(fprop[n], patch_len)])

\* fprop_outputs[:, -1, :output_patch_len, :], one series
LastPatchForecast(fprop, opl) == SliceFirst(fprop[Len(fprop)], opl)

\* MeanChannel taking channel 1, the first quantile
MeanChannelFirstQuantile(full_row) == [t \in 1..Len(full_row) |-> full_row[t][2]]

\* x[:, :, 0] of one series
MeanChannel(full_row) == [t \in 1..Len(full_row) |-> full_row[t][1]]

\* NumDecodePatches rounding up without the - 1
NumDecodePatchesNoMinusOne(hor_len, opl) == (hor_len + opl) \div opl

\* (horizon_len + output_patch_len - 1) // output_patch_len
NumDecodePatches(hor_len, opl) == (hor_len + opl - 1) \div opl

\* torch.concatenate(full_outputs, axis=1)
ConcatAxis1(outs) ==
    [b \in 1..Len(outs[1]) |-> Flatten([k \in 1..Len(outs) |-> outs[k][b]])]

\* RecombineMean adding the first half of the rows to the second half
RecombineMeanHalves(m) ==
    [i \in 1..(Len(m) \div 2) |->
        [t \in 1..Len(m[1]) |-> m[i][t] + m[i + (Len(m) \div 2)][t]]]

\* mean_outputs[0::2, ...] + mean_outputs[1::2, ...]
RecombineMean(m) ==
    [i \in 1..Len(OddRows(m)) |->
        [t \in 1..Len(m[1]) |-> EvenRows(m)[i][t] + OddRows(m)[i][t]]]

\* full_outputs[0::2, ...] + full_outputs[1::2, ...]
RecombineFull(f) ==
    [i \in 1..Len(OddRows(f)) |->
        [t \in 1..Len(f[1]) |->
            [c \in 1..Len(f[1][1]) |-> EvenRows(f)[i][t][c] + OddRows(f)[i][t][c]]]]

\* a Python float passed where torch expects an operand
PyFloat(v) == [is_tensor |-> FALSE, val |-> v]

\* torch.maximum(input, other) takes two tensors: any other kind of other
\* (a Python float) raises TypeError.
TorchMaximumRaises(other) == ~other.is_tensor

\* torch.maximum(input, other) elementwise, for a 2-d and for a 3-d input
Maximum2(rows, v) == [b \in 1..Len(rows) |-> [t \in 1..Len(rows[b]) |-> Max2(rows[b][t], v)]]

Maximum3(rows, v) ==
    [b \in 1..Len(rows) |->
        [t \in 1..Len(rows[b]) |->
            [c \in 1..Len(rows[b][t]) |-> Max2(rows[b][t][c], v)]]]

\* ------------------------------------------------------------------ loss
\* Pinball with the smaller of the two terms
PinballMin(q, e) == Min2((q - 10) * e, q * e)

\* max((q - 1) * e, q * e) with q in tenths: the result is in tenths
Pinball(q, e) == Max2((q - 10) * e, q * e)

\* entry (b, t) of a target broadcast against a prediction
TargetAt(targets, b, t) == IF Len(targets[b]) = 1 THEN targets[b][1] ELSE targets[b][t]

\* the sum of all entries of a 2-d tensor
SumAll(rows) == SumSeq([b \in 1..Len(rows) |-> SumSeq(rows[b])])

Count(rows) == SumSeq([b \in 1..Len(rows) |-> Len(rows[b])])

\* predictions[..., i]
Channel(predictions, i) ==
    [b \in 1..Len(predictions) |-> [t \in 1..Len(predictions[b]) |-> predictions[b][t][i]]]

\* one pass of the loop of _quantile_loss: loss.mean() for quantile q, where
\* errors = targets - predictions[..., i]
QuantileLossOne(q, predictions_i, targets) ==
    LET errors == [b \in 1..Len(predictions_i) |->
                      [t \in 1..Len(predictions_i[b]) |->
                          TargetAt(targets, b, t) - predictions_i[b][t]]]
        l == [b \in 1..Len(errors) |->
                 [t \in 1..Len(errors[b]) |-> Pinball(q, errors[b][t])]]
    IN  [num |-> SumAll(l), den |-> 10 * Count(l)]

\* the list losses of _quantile_loss
QuantileLosses(quantiles, predictions, targets) ==
    [i \in 1..Len(quantiles) |->
        QuantileLossOne(quantiles[i], Channel(predictions, i), targets)]

\* torch.stack(losses).mean(): every entry has the same denominator
MeanOfLosses(losses) ==
    [num |-> SumSeq([i \in 1..Len(losses) |-> losses[i].num]),
     den |-> losses[1].den * Len(losses)]

_quantile_loss(quantiles, predictions, targets) ==
    MeanOfLosses(QuantileLosses(quantiles, predictions, targets))

\* F.mse_loss(input, target)
MseLoss(input, targets) ==
    LET d == [b \in 1..Len(input) |->
                 [t \in 1..Len(input[b]) |->
                     (input[b][t] - TargetAt(targets, b, t))
                         * (input[b][t] - TargetAt(targets, b, t))]]
    IN  [num |-> SumAll(d), den |-> Count(d)]

\* F.mse_loss broadcasts its arguments: the time lengths are equal, or one is 1
Broadcastable(a, b) == a = b \/ a = 1 \/ b = 1

\* mse_loss + quantile_loss: mse is in 1/Unit^2, the quantile loss in 1/Unit
AddLoss(mse, ql) ==
    [num |-> mse.num * ql.den + ql.num * Unit * mse.den, den |-> mse.den * ql.den * Unit * Unit]

\* --------------------------------------------------------------- the call
\* the first value of an input series
StartVals == {-1, 1}

\* the decoder's weight: one trained model
Weights == {-1}

\* an input series: a ramp of distinct values from v0, in counts of 1/Unit
Ramp(v0, n) == [k \in 1..n |-> (v0 + k - 1) * Unit]

Batches ==
    UNION {{[i \in 1..n |-> Tensor1(Ramp(v0, lens[i]))] :
               v0 \in StartVals, lens \in [1..n -> 1..MaxLen]} : n \in 1..MaxBatch}

Optional(S) == {None} \cup {Some(v) : v \in S}

Configs ==
    [patch_len : {PatchLen},
     context_len : {PatchLen * k : k \in 1..MaxPatches},
     horizon_len : 1..MaxHorizon,
     quantiles : {Quantiles}]

\* forward's locals before forward assigns them
LocalsUnset ==
    /\ fcontext_len = Unset /\ inputs = Unset /\ inp_min = Unset /\ freq = Unset
    /\ input_ts = Unset /\ input_padding = Unset /\ inp_freq = Unset
    /\ final_out = Unset /\ context_len = Unset /\ full_outputs = Unset
    /\ output_patch_len = Unset /\ num_decode_patches = Unset /\ step_index = Unset
    /\ mean_outputs = Unset /\ loss = Unset

\* A constructed TimesFmModelForPrediction (lines 879-896) and a call of
\* forward with its arguments.
Init ==
    /\ config \in Configs
    /\ horizon_len = config.horizon_len
    /\ weights \in Weights
    /\ call_inputs \in Batches
    /\ forecast_context_len \in Optional(1..MaxFc)
    /\ window_size \in Optional(1..MaxWindow)
    /\ return_forecast_on_context = Unread
    /\ truncate_negative = Unread
    /\ future_target = Unread
    /\ LocalsUnset
    /\ pc = "called"
    /\ err = None
    /\ result = None
    /\ fn = "forward" /\ fn_args = None /\ fn_ret = None

Raise(e) == pc' = "raised" /\ err' = Some(e) /\ result' = None

\* lines 1008-1021: the series are cut to their last fcontext_len values
Truncate ==
    /\ pc = "called"
    /\ fcontext_len' = IF forecast_context_len.is_none THEN config.context_len
                       ELSE forecast_context_len.val
    /\ inputs' = [i \in 1..Len(call_inputs) |->
                     Tensor1(SliceLast(call_inputs[i].data, fcontext_len'))]
    /\ inp_min' = MinSeq([i \in 1..Len(call_inputs) |-> MinSeq(inputs'[i].data)])
    /\ pc' = "decompose"
    /\ UNCHANGED <<callVars, fnVars, return_forecast_on_context, truncate_negative,
                   future_target, freq, input_ts, input_padding, inp_freq, final_out,
                   context_len, full_outputs, output_patch_len, num_decode_patches,
                   step_index, mean_outputs, loss, err, result>>

\* lines 1023-1042: the trend and the residual of every series replace it;
\* freq is not given and defaults to 0 for every series
Decompose ==
    /\ pc = "decompose"
    /\ inputs' = IF window_size.is_none THEN inputs
                 ELSE Flatten([i \in 1..Len(inputs) |->
                          timesfm_moving_average(inputs[i], window_size.val)])
    /\ freq' = Zeros(Len(inputs'))
    /\ pc' = "preprocess"
    /\ UNCHANGED <<callVars, fnVars, return_forecast_on_context, truncate_negative,
                   future_target, fcontext_len, inp_min, input_ts, input_padding,
                   inp_freq, final_out, context_len, full_outputs, output_patch_len,
                   num_decode_patches, step_index, mean_outputs, loss, err, result>>

\* lines 1044-1049: _preprocess
PreprocessInputs ==
    /\ pc = "preprocess"
    /\ LET r == Preprocess(inputs, freq, config.context_len, horizon_len)
       IN  IF r.raised # ""
           THEN /\ Raise(r.raised)
                /\ UNCHANGED <<input_ts, input_padding, inp_freq>>
           ELSE /\ input_ts' = r.input_ts
                /\ input_padding' = r.input_padding
                /\ inp_freq' = r.inp_freq
                /\ pc' = "check"
                /\ UNCHANGED <<err, result>>
    /\ UNCHANGED <<callVars, fnVars, return_forecast_on_context, truncate_negative,
                   future_target, fcontext_len, inputs, inp_min, freq, final_out,
                   context_len, full_outputs, output_patch_len, num_decode_patches,
                   step_index, mean_outputs, loss>>

\* PaddingMismatch rejecting only a pad mask that is too short
PaddingTooShort(pad_len, ts_len, hor_len) == pad_len < ts_len + hor_len

\* input_padding.shape[1] != final_out.shape[1] + self.horizon_len
PaddingMismatch(pad_len, ts_len, hor_len) == pad_len # ts_len + hor_len

\* lines 1051-1062: the pad mask's length is checked against the series'
CheckPadding ==
    /\ pc = "check"
    /\ final_out' = input_ts
    /\ context_len' = Len(input_ts[1])
    /\ full_outputs' = <<>>
    /\ IF PaddingMismatch(Len(input_padding[1]), Len(input_ts[1]), horizon_len)
       THEN /\ Raise("ValueError")
            /\ UNCHANGED <<output_patch_len, num_decode_patches, step_index>>
       ELSE /\ output_patch_len' = config.horizon_len
            /\ num_decode_patches' = NumDecodePatches(horizon_len, config.horizon_len)
            /\ step_index' = 0
            /\ pc' = "decode"
            /\ UNCHANGED <<err, result>>
    /\ UNCHANGED <<callVars, fnVars, return_forecast_on_context, truncate_negative,
                   future_target, fcontext_len, inputs, inp_min, freq, input_ts,
                   input_padding, inp_freq, mean_outputs, loss>>

\* lines 1063-1093: one pass of the decode loop
DecodeStep ==
    /\ pc = "decode"
    /\ step_index < num_decode_patches
    /\ \E rfc \in (IF step_index = 0 THEN BOOLEAN ELSE {return_forecast_on_context.val}) :
        LET current_padding == [b \in 1..Len(final_out) |->
                                   SliceFirst(input_padding[b], Len(final_out[b]))]
            window_ts == [b \in 1..Len(final_out) |-> SliceLast(final_out[b], fcontext_len)]
            window_padding == [b \in 1..Len(final_out) |->
                                  SliceLast(current_padding[b], fcontext_len)]
            fprop == [b \in 1..Len(final_out) |->
                         FpropOutputs(weights, window_ts[b], window_padding[b], config)]
            context_full_ts == [b \in 1..Len(final_out) |->
                                   ContextForecast(fprop[b], config.patch_len)]
            new_full_ts == [b \in 1..Len(final_out) |->
                               LastPatchForecast(fprop[b], output_patch_len)]
            new_ts == [b \in 1..Len(final_out) |-> MeanChannel(new_full_ts[b])]
        IN  /\ return_forecast_on_context' = Arg(rfc)
            /\ input_ts' = window_ts
            /\ input_padding' = window_padding
            /\ IF ~ViewOk(Len(window_ts[1]), config.patch_len)
                  \/ Len(window_padding[1]) # Len(window_ts[1])
               THEN /\ Raise("RuntimeError")
                    /\ UNCHANGED <<final_out, full_outputs, step_index>>
               ELSE /\ full_outputs' =
                           full_outputs
                           \o (IF rfc /\ step_index = 0 THEN <<context_full_ts>> ELSE <<>>)
                           \o <<new_full_ts>>
                    /\ final_out' = [b \in 1..Len(final_out) |-> final_out[b] \o new_ts[b]]
                    /\ step_index' = step_index + 1
                    /\ UNCHANGED <<pc, err, result>>
    /\ UNCHANGED <<callVars, fnVars, truncate_negative, future_target, fcontext_len, inputs,
                   inp_min, freq, inp_freq, context_len, output_patch_len,
                   num_decode_patches, mean_outputs, loss>>

\* lines 1095-1110: the outputs are joined and cut to the horizon, the trend
\* and residual forecasts are added, negative values are truncated
Stitch ==
    /\ pc = "decode"
    /\ step_index >= num_decode_patches
    /\ \E tn \in BOOLEAN :
        LET joined == ConcatAxis1(full_outputs)
            keep == IF return_forecast_on_context.val
                    THEN context_len - config.patch_len + horizon_len
                    ELSE horizon_len
            cut == [b \in 1..Len(joined) |-> SliceFirst(joined[b], keep)]
            mean == [b \in 1..Len(cut) |-> MeanChannel(cut[b])]
            mean2 == IF window_size.is_none THEN mean ELSE RecombineMean(mean)
            full2 == IF window_size.is_none THEN cut ELSE RecombineFull(cut)
        IN  /\ truncate_negative' = Arg(tn)
            /\ IF inp_min >= 0 /\ tn
               THEN IF TorchMaximumRaises(PyFloat(0))
                    THEN /\ Raise("TypeError")
                         /\ mean_outputs' = mean2
                         /\ full_outputs' = full2
                    ELSE /\ mean_outputs' = Maximum2(mean2, 0)
                         /\ full_outputs' = Maximum3(full2, 0)
                         /\ pc' = "loss"
                         /\ UNCHANGED <<err, result>>
               ELSE /\ mean_outputs' = mean2
                    /\ full_outputs' = full2
                    /\ pc' = "loss"
                    /\ UNCHANGED <<err, result>>
    /\ UNCHANGED <<callVars, fnVars, return_forecast_on_context, future_target, fcontext_len,
                   inputs, inp_min, freq, input_ts, input_padding, inp_freq, final_out,
                   context_len, output_patch_len, num_decode_patches, step_index, loss>>

\* a future_target of shape (n, hor_len)
FutureTargets(n, hor_len) ==
    {[b \in 1..n |-> [t \in 1..hor_len |-> v * Unit]] : v \in 0..MaxTarget}

\* full_outputs[:, :, 1:]
QuantileChannels(full) ==
    [b \in 1..Len(full) |-> [t \in 1..Len(full[b]) |-> Tail(full[b][t])]]

\* lines 1112-1127: the loss, and the output
Return ==
    /\ pc = "loss"
    /\ \E ft \in Optional(FutureTargets(Len(mean_outputs), horizon_len)) :
        /\ future_target' = Arg(ft)
        /\ IF ft.is_none
           THEN /\ loss' = None
                /\ pc' = "returned"
                /\ result' = Some([mean_predictions |-> mean_outputs,
                                   full_predictions |-> full_outputs,
                                   loss |-> None])
                /\ UNCHANGED err
           ELSE IF ~Broadcastable(Len(mean_outputs[1]), Len(ft.val[1]))
           THEN /\ Raise("RuntimeError")
                /\ UNCHANGED loss
           ELSE /\ loss' = Some(AddLoss(MseLoss(mean_outputs, ft.val),
                                        _quantile_loss(config.quantiles,
                                            QuantileChannels(full_outputs), ft.val)))
                /\ pc' = "returned"
                /\ result' = Some([mean_predictions |-> mean_outputs,
                                   full_predictions |-> full_outputs,
                                   loss |-> loss'])
                /\ UNCHANGED err
    /\ UNCHANGED <<callVars, fnVars, return_forecast_on_context, truncate_negative,
                   fcontext_len, inputs, inp_min, freq, input_ts, input_padding,
                   inp_freq, final_out, context_len, full_outputs, output_patch_len,
                   num_decode_patches, step_index, mean_outputs>>

Next ==
    \/ Truncate
    \/ Decompose
    \/ PreprocessInputs
    \/ CheckPadding
    \/ DecodeStep
    \/ Stitch
    \/ Return

Spec == Init /\ [][Next]_vars

\* ------------------------------------------- the decode-step count scenarios
\* horizon lengths of the scenarios that count decode steps
StepHorizons == {1, 8, 10, 16}

\* A call of forward on one series, under a configuration with one of the
\* horizon lengths above.
InitSteps ==
    /\ config \in [patch_len : {PatchLen},
                   context_len : {PatchLen * k : k \in 1..MaxPatches},
                   horizon_len : StepHorizons,
                   quantiles : {Quantiles}]
    /\ horizon_len = config.horizon_len
    /\ weights \in Weights
    /\ call_inputs \in {b \in Batches : Len(b) = 1}
    /\ forecast_context_len \in Optional(1..MaxFc)
    /\ window_size \in Optional(1..MaxWindow)
    /\ return_forecast_on_context = Unread
    /\ truncate_negative = Unread
    /\ future_target = Unread
    /\ LocalsUnset
    /\ pc = "called"
    /\ err = None
    /\ result = None
    /\ fn = "forward" /\ fn_args = None /\ fn_ret = None

SpecSteps == InitSteps /\ [][Next]_vars

\* ------------------------------------------------ batches, undecomposed
\* A call of forward on a batch of series of any lengths, without the
\* moving-average decomposition.
InitBatches ==
    /\ config \in Configs
    /\ horizon_len = config.horizon_len
    /\ weights \in Weights
    /\ call_inputs \in Batches
    /\ forecast_context_len \in Optional(1..MaxFc)
    /\ window_size = None
    /\ return_forecast_on_context = Unread
    /\ truncate_negative = Unread
    /\ future_target = Unread
    /\ LocalsUnset
    /\ pc = "called"
    /\ err = None
    /\ result = None
    /\ fn = "forward" /\ fn_args = None /\ fn_ret = None

SpecBatches == InitBatches /\ [][Next]_vars

\* ------------------------------------------------ the pad-mask check alone
\* forward from line 1051 on, for series and pad masks of any lengths: the
\* lengths _preprocess gives, and others.
InitPadCheck ==
    /\ config \in Configs
    /\ horizon_len = config.horizon_len
    /\ weights \in Weights
    /\ call_inputs \in {b \in Batches : Len(b) = 1}
    /\ forecast_context_len = None
    /\ window_size = None
    /\ return_forecast_on_context = Unread
    /\ truncate_negative = Unread
    /\ future_target = Unread
    /\ fcontext_len = config.context_len
    /\ inputs = call_inputs
    /\ inp_min = MinSeq(call_inputs[1].data)
    /\ freq = Zeros(1)
    /\ \E pad_len \in 1..(config.context_len + horizon_len + 1),
          front \in 0..1 :
          /\ input_ts = <<PreprocessOne(call_inputs[1].data, config.context_len, horizon_len).ts>>
          /\ input_padding = <<[k \in 1..pad_len |-> IF k <= front THEN 1 ELSE 0]>>
    /\ inp_freq = <<<<0>>>>
    /\ final_out = Unset /\ context_len = Unset /\ full_outputs = Unset
    /\ output_patch_len = Unset /\ num_decode_patches = Unset /\ step_index = Unset
    /\ mean_outputs = Unset /\ loss = Unset
    /\ pc = "check"
    /\ err = None
    /\ result = None
    /\ fn = "forward" /\ fn_args = None /\ fn_ret = None

NextPadCheck ==
    \/ CheckPadding
    \/ DecodeStep
    \/ Stitch
    \/ Return

SpecPadCheck == InitPadCheck /\ [][NextPadCheck]_vars

\* ------------------------------------------------ functions called alone
\* forward is not running
ForwardIdle ==
    /\ config = Unset /\ horizon_len = Unset /\ weights = Unset
    /\ call_inputs = Unset /\ forecast_context_len = None /\ window_size = None
    /\ return_forecast_on_context = Unread
    /\ truncate_negative = Unread
    /\ future_target = Unread
    /\ LocalsUnset
    /\ pc = "idle"
    /\ err = None
    /\ result = None

forwardVars == <<callVars, return_forecast_on_context, truncate_negative, future_target,
                 fcontext_len, inputs, inp_min, freq, input_ts, input_padding, inp_freq,
                 final_out, context_len, full_outputs, output_patch_len,
                 num_decode_patches, step_index, mean_outputs, loss, pc, err, result>>

\* every sequence of length 1..n over S
SeqsUpTo(S, n) == UNION {[1..k -> S] : k \in 1..n}

\* timesfm_moving_average(arr, window_size) on a series of any values
InitMovingAverage ==
    /\ ForwardIdle
    /\ fn = "timesfm_moving_average"
    /\ fn_args \in [arr : {Tensor1([k \in 1..Len(x) |-> x[k] * Unit]) :
                             x \in SeqsUpTo(-MaxVal..MaxVal, MaxLen)},
                    window_size : 1..MaxWindow]
    /\ fn_ret = None

CallMovingAverage ==
    /\ fn = "timesfm_moving_average"
    /\ fn_ret = None
    /\ fn_ret' = Some(timesfm_moving_average(fn_args.arr, fn_args.window_size))
    /\ UNCHANGED <<forwardVars, fn, fn_args>>

SpecMovingAverage == InitMovingAverage /\ [][CallMovingAverage]_vars

\* the values of the predictions and targets of _quantile_loss called alone
LossVals == {-2, 0, 1}

\* the lists config.quantiles of _quantile_loss called alone, in tenths
QuantileLists == {<<5>>, <<1, 5>>, <<5, 9>>}

\* _quantile_loss(predictions, targets) on one series
InitQuantileLoss ==
    /\ ForwardIdle
    /\ fn = "_quantile_loss"
    /\ \E quantiles \in QuantileLists, n \in 1..MaxLossLen :
        fn_args \in [quantiles : {quantiles},
                     predictions : {<<row>> : row \in [1..n -> [1..Len(quantiles) -> LossVals]]},
                     targets : {<<row>> : row \in [1..n -> LossVals]}]
    /\ fn_ret = None

CallQuantileLoss ==
    /\ fn = "_quantile_loss"
    /\ fn_ret = None
    /\ fn_ret' = Some([losses |-> QuantileLosses(fn_args.quantiles, fn_args.predictions,
                                                  fn_args.targets),
                       loss |-> _quantile_loss(fn_args.quantiles, fn_args.predictions,
                                               fn_args.targets)])
    /\ UNCHANGED <<forwardVars, fn, fn_args>>

SpecQuantileLoss == InitQuantileLoss /\ [][CallQuantileLoss]_vars

\* ---------------------------------------------- the attention block alone
\* TIMESFM_ATTENTION_CLASSES
TIMESFM_ATTENTION_CLASSES == {"eager", "sdpa"}

\* the values of config._attn_implementation tried
AttnImplementations == {"eager", "sdpa", "flash_attention_2"}

\* TimesFmAttention.__init__(config, layer_idx): the block, or the exception
TimesFmAttentionInit(cfg, layer_idx) ==
    LET num_heads == cfg.num_heads
        num_kv_heads == cfg.num_heads
    IN  IF num_heads % num_kv_heads # 0
        THEN [raised |-> "AssertionError"]
        ELSE [raised |-> "",
              layer_idx |-> layer_idx,
              num_heads |-> num_heads,
              num_kv_heads |-> num_kv_heads,
              num_queries_per_kv |-> num_heads \div num_kv_heads,
              hidden_size |-> cfg.model_dim,
              head_dim |-> cfg.head_dim,
              q_size |-> num_heads * cfg.head_dim,
              kv_size |-> num_kv_heads * cfg.head_dim,
              qkv_proj_out |-> (num_heads + 2 * num_kv_heads) * cfg.head_dim,
              o_proj_in |-> num_heads * cfg.head_dim]

\* TimesFmDecoderLayer.__init__(config, layer_idx): the layer with its
\* attention block, or the exception
TimesFmDecoderLayerInit(cfg, layer_idx) ==
    IF cfg.attn_implementation \notin TIMESFM_ATTENTION_CLASSES
    THEN [raised |-> "ValueError"]
    ELSE LET self_attn == TimesFmAttentionInit(cfg, layer_idx)
         IN  IF self_attn.raised # "" THEN [raised |-> self_attn.raised]
             ELSE [raised |-> "", self_attn |-> self_attn]

InitAttention ==
    /\ ForwardIdle
    /\ fn = "TimesFmDecoderLayer"
    /\ \E num_heads \in 1..MaxHeads, head_dim \in 1..MaxHeadDim :
        fn_args \in [config : [num_heads : {num_heads},
                               num_key_value_heads : 1..MaxHeads,
                               head_dim : {head_dim},
                               model_dim : {num_heads * head_dim},
                               attn_implementation : AttnImplementations],
                     layer_idx : 0..MaxLayerIdx]
    /\ fn_ret = None

ConstructDecoderLayer ==
    /\ fn = "TimesFmDecoderLayer"
    /\ fn_ret = None
    /\ fn_ret' = Some(TimesFmDecoderLayerInit(fn_args.config, fn_args.layer_idx))
    /\ UNCHANGED <<forwardVars, fn, fn_args>>

SpecAttention == InitAttention /\ [][ConstructDecoderLayer]_vars

\* ------------------------------------------------------- normalization
\* the length of a patch of the normalization scenarios
StatPatchLen == 3

\* the number of patches of a window of the normalization scenarios
MaxStatPatches == 2

\* config.pad_val, the value that marks an element as padded
PadVal == 9

\* a fraction num / den, den > 0
Frac(num, den) == [num |-> num, den |-> den]

FracLess(a, b) == a.num * b.den < b.num * a.den

\* config.tolerance: small and positive
Tolerances == {Frac(1, 1000), Frac(1, 2)}

\* the error of the floating-point variance, in units of its numerator
RoundingErrors == {-1, 0, 1}

\* torch.sqrt(v) of a fraction v >= 0, kept as the number whose square is v
Sqrt(v) == [squared |-> v]

\* sigma < tolerance, both >= 0: their squares compare the same way
SqrtLess(sigma, tol) ==
    FracLess(sigma.squared, Frac(tol.num * tol.num, tol.den * tol.den))

\* the number of s[k] = v
RECURSIVE CountEq(_, _)
CountEq(s, v) ==
    IF s = <<>> THEN 0 ELSE (IF Head(s) = v THEN 1 ELSE 0) + CountEq(Tail(s), v)

\* view(bsize, -1, patch_len) of one series: its patches
Patches(row, patch_len) ==
    [n \in 1..(Len(row) \div patch_len) |->
        SubSeq(row, (n - 1) * patch_len + 1, n * patch_len)]

\* _get_patch_index with "more than 3" unpadded values
GetPatchIndexMoreThanThree(arr) ==
    IF \A n \in 1..Len(arr) : arr[n] <= 3
    THEN Len(arr)
    ELSE CHOOSE n \in 1..Len(arr) : arr[n] > 3 /\ \A m \in 1..(n - 1) : arr[m] <= 3

\* _get_patch_index of one series: the argmax of arr >= 3 is the first patch
\* with 3 unpadded values, the last patch is taken when there is none
_get_patch_index(arr) ==
    IF \A n \in 1..Len(arr) : arr[n] < 3
    THEN Len(arr)
    ELSE CHOOSE n \in 1..Len(arr) : arr[n] >= 3 /\ \A m \in 1..(n - 1) : arr[m] < 3

\* timesfm_masked_mean_std of one series of patches.  rounding is the error
\* of the floating-point subtraction masked_squared_sum / n - masked_mean^2.
timesfm_masked_mean_std(patched_inputs, padding, rounding) ==
    LET pad_sum == [n \in 1..Len(padding) |-> CountEq(padding[n], 0)]
        patch_index == _get_patch_index(pad_sum)
        arr == patched_inputs[patch_index]
        pad == padding[patch_index]
        mask == [k \in 1..Len(pad) |-> 1 - pad[k]]
        valid == SumSeq(mask)
        num_valid_elements == IF valid = 0 THEN 1 ELSE valid
        masked_sum == SumSeq([k \in 1..Len(arr) |-> arr[k] * mask[k]])
        masked_squared_sum ==
            SumSeq([k \in 1..Len(arr) |-> (arr[k] * mask[k]) * (arr[k] * mask[k])])
        masked_mean == Frac(masked_sum, num_valid_elements)
        var_num == num_valid_elements * masked_squared_sum
                       - masked_sum * masked_sum + rounding
        masked_var == Frac(IF var_num < 0 THEN 0 ELSE var_num,
                           num_valid_elements * num_valid_elements)
    IN  [patch_index |-> patch_index,
         masked_mean |-> masked_mean,
         masked_std |-> Sqrt(masked_var)]

\* _forward_transform without the floor of sigma
ForwardTransformNoFloor(patched_inputs, patched_pads, cfg, rounding) ==
    LET stats == timesfm_masked_mean_std(patched_inputs, patched_pads, rounding)
    IN  [mu |-> stats.masked_mean,
         sigma |-> stats.masked_std,
         patch_index |-> stats.patch_index,
         outputs |-> <<>>]

\* _forward_transform of one series: sigma is floored, every value is
\* normalized to (x - mu) / sigma, a value equal to pad_val is kept
_forward_transform(patched_inputs, patched_pads, cfg, rounding) ==
    LET stats == timesfm_masked_mean_std(patched_inputs, patched_pads, rounding)
        mu == stats.masked_mean
        sigma == IF SqrtLess(stats.masked_std, cfg.tolerance)
                 THEN Sqrt(Frac(1, 1))
                 ELSE stats.masked_std
    IN  [mu |-> mu,
         sigma |-> sigma,
         patch_index |-> stats.patch_index,
         outputs |-> [n \in 1..Len(patched_inputs) |->
                         [k \in 1..Len(patched_inputs[n]) |->
                             IF patched_inputs[n][k] = cfg.pad_val
                             THEN [is_pad_val |-> TRUE]
                             ELSE [is_pad_val |-> FALSE,
                                   centered |-> Frac(patched_inputs[n][k] * mu.den - mu.num, mu.den),
                                   over |-> sigma]]]]

\* the series of the normalization scenarios: constant, or a ramp
StatSeries(len) ==
    {[k \in 1..len |-> v0 + step * (k - 1)] : v0 \in {-1, 1}, step \in {0, 1}}

\* _forward_transform(inputs, patched_pads) on one series, under any pad mask
InitForwardTransform ==
    /\ ForwardIdle
    /\ fn = "_forward_transform"
    /\ \E p \in 2..StatPatchLen, n \in 1..MaxStatPatches :
        fn_args \in [inputs : {Patches(x, p) : x \in StatSeries(n * p)},
                     patched_pads : {Patches(m, p) : m \in [1..(n * p) -> {0, 1}]},
                     config : [tolerance : Tolerances, pad_val : {PadVal}],
                     rounding : RoundingErrors]
    /\ fn_ret = None

CallForwardTransform ==
    /\ fn = "_forward_transform"
    /\ fn_ret = None
    /\ fn_ret' = Some(_forward_transform(fn_args.inputs, fn_args.patched_pads,
                                         fn_args.config, fn_args.rounding))
    /\ UNCHANGED <<forwardVars, fn, fn_args>>

SpecForwardTransform == InitForwardTransform /\ [][CallForwardTransform]_vars

\* timesfm_masked_mean_std(inputs, padding) on one series, under any pad mask
InitMaskedMeanStd ==
    /\ ForwardIdle
    /\ fn = "timesfm_masked_mean_std"
    /\ \E p \in 2..StatPatchLen, n \in 1..MaxStatPatches :
        fn_args \in [inputs : {Patches(x, p) : x \in StatSeries(n * p)},
                     padding : {Patches(m, p) : m \in [1..(n * p) -> {0, 1}]},
                     rounding : RoundingErrors]
    /\ fn_ret = None

CallMaskedMeanStd ==
    /\ fn = "timesfm_masked_mean_std"
    /\ fn_ret = None
    /\ fn_ret' = Some(timesfm_masked_mean_std(fn_args.inputs, fn_args.padding,
                                              fn_args.rounding))
    /\ UNCHANGED <<forwardVars, fn, fn_args>>

SpecMaskedMeanStd == InitMaskedMeanStd /\ [][CallMaskedMeanStd]_vars

\* ------------------------------------------------------ the attention mask
\* the number of patches of a window of the decoder scenarios
MaxSeq == 2

\* the number of series of a batch of the attention-mask scenarios
MaxMaskBatch == 2

\* finfo(dtype).max or iinfo(dtype).max of the working dtypes, scaled: the
\* values stand for the largest numbers of two dtypes
DtypeMaxes == {10, 1000}

\* timesfm_get_large_negative_number: -0.7 * dtype_max
timesfm_get_large_negative_number(dtype_max) == -((7 * dtype_max) \div 10)

\* _prepare_4d_attention_mask adding the padding mask to the causal mask
Prepare4dAttentionMaskSum(attention_mask, sequence_length, dtype_max, is_causal) ==
    LET neg == timesfm_get_large_negative_number(dtype_max)
        causal_mask == [i \in 1..sequence_length |->
                           [j \in 1..sequence_length |-> IF j > i THEN neg ELSE 0]]
    IN  IF attention_mask.is_none
        THEN IF is_causal THEN Some(<<causal_mask>>) ELSE None
        ELSE LET padding_mask == [b \in 1..Len(attention_mask.val) |->
                                     <<[j \in 1..Len(attention_mask.val[b]) |->
                                           attention_mask.val[b][j] * neg]>>]
             IN  IF is_causal
                 THEN Some([b \in 1..Len(padding_mask) |->
                          [i \in 1..sequence_length |->
                              [j \in 1..sequence_length |->
                                  padding_mask[b][1][j] + causal_mask[i][j]]]])
                 ELSE Some(padding_mask)

\* _prepare_4d_attention_mask: None, or the mask [b][i][j] (the head
\* dimension, of size 1, is left out).  The padding mask alone has one row
\* per series, which broadcasts over the queries.
_prepare_4d_attention_mask(attention_mask, sequence_length, dtype_max, is_causal) ==
    LET neg == timesfm_get_large_negative_number(dtype_max)
        causal_mask == [i \in 1..sequence_length |->
                           [j \in 1..sequence_length |-> IF j > i THEN neg ELSE 0]]
    IN  IF attention_mask.is_none
        THEN IF is_causal THEN Some(<<causal_mask>>) ELSE None
        ELSE LET padding_mask == [b \in 1..Len(attention_mask.val) |->
                                     <<[j \in 1..Len(attention_mask.val[b]) |->
                                           attention_mask.val[b][j] * neg]>>]
             IN  IF is_causal
                 THEN Some([b \in 1..Len(padding_mask) |->
                          [i \in 1..sequence_length |->
                              [j \in 1..sequence_length |->
                                  Min2(padding_mask[b][1][j], causal_mask[i][j])]]])
                 ELSE Some(padding_mask)

\* _prepare_4d_attention_mask(paddings, sequence_length, dtype, is_causal)
\* on a batch of pad flags per patch
InitAttentionMask ==
    /\ ForwardIdle
    /\ fn = "_prepare_4d_attention_mask"
    /\ \E n \in 1..MaxSeq, bsize \in 1..MaxMaskBatch :
        fn_args \in [attention_mask : Optional([1..bsize -> [1..n -> {0, 1}]]),
                     sequence_length : {n},
                     dtype_max : DtypeMaxes,
                     is_causal : BOOLEAN]
    /\ fn_ret = None

CallAttentionMask ==
    /\ fn = "_prepare_4d_attention_mask"
    /\ fn_ret = None
    /\ fn_ret' = Some(_prepare_4d_attention_mask(fn_args.attention_mask,
                          fn_args.sequence_length, fn_args.dtype_max, fn_args.is_causal))
    /\ UNCHANGED <<forwardVars, fn, fn_args>>

SpecAttentionMask == InitAttentionMask /\ [][CallAttentionMask]_vars

\* ------------------------------------------------- TimesFmAttention.forward
\* the largest difference of two scores whose exp() is not rounded to 0
MaxExp == 8

\* the dtype of the hidden states of the decoder scenarios: its largest number
AttnDtypeMaxes == {1000}

\* hidden states of one series: one number per patch stands for the vector
HiddenVals == {-1, 2}

\* the weights of the projections of an attention block (one head, head_dim 1)
AttnWeights == {[q |-> 1, k |-> 1, v |-> 1], [q |-> 1, k |-> -1, v |-> 2]}

\* A Cache (the class is not in this file): per layer index, the keys and
\* the values of the steps so far.
EmptyCache == [l \in 0..MaxLayerIdx |-> [key_states |-> <<>>, value_states |-> <<>>]]

\* Cache.update(xk, xv, layer_idx, ...): the keys and values of this step are
\* appended under layer_idx
CacheUpdate(cache, xk, xv, layer_idx) ==
    [cache EXCEPT ![layer_idx] = [key_states |-> @.key_states \o xk,
                                  value_states |-> @.value_states \o xv]]

\* scores + attention_mask in floating point: a score is far below the
\* precision of -0.7 * dtype_max, the sum is the mask's constant
AddBias(score, bias) == IF bias = 0 THEN score ELSE bias

RECURSIVE Pow2(_)
Pow2(n) == IF n = 0 THEN 1 ELSE 2 * Pow2(n - 1)

RECURSIVE MaxSeqVal(_)
MaxSeqVal(s) ==
    IF Len(s) = 1 THEN s[1] ELSE Max2(s[1], MaxSeqVal(Tail(s)))

\* exp(x - max), in units of exp(-MaxExp), with base 2: 0 when x is more
\* than MaxExp below the largest score of the row
ExpShifted(x, m) == IF m - x > MaxExp THEN 0 ELSE Pow2(MaxExp - (m - x))

\* F.softmax(scores, dim=-1) of one row: the weights as fractions
Softmax(row) ==
    LET m == MaxSeqVal(row)
        e == [j \in 1..Len(row) |-> ExpShifted(row[j], m)]
    IN  [j \in 1..Len(row) |-> Frac(e[j], SumSeq(e))]

\* the mask of one series broadcasts against scores of shape (rows, cols)
MaskBroadcasts(mask, rows, cols) ==
    /\ Len(mask) = rows \/ Len(mask) = 1
    /\ Len(mask[1]) = cols \/ Len(mask[1]) = 1

MaskAt(mask, i, j) ==
    mask[IF Len(mask) = 1 THEN 1 ELSE i][IF Len(mask[1]) = 1 THEN 1 ELSE j]

\* TimesFmAttention.forward for one series, one head of head_dim 1.  The
\* result holds the cache too, which the call updates in place.
\* TimesFmSdpaAttention.forward computes the same output and returns no scores.
AttentionForward(self, hidden_states, attention_mask, past_key_value, cache_position, output_attentions) ==
    LET input_len == Len(hidden_states)
        xq == [i \in 1..input_len |-> self.w.q * hidden_states[i]]
        xk == [i \in 1..input_len |-> self.w.k * hidden_states[i]]
        xv == [i \in 1..input_len |-> self.w.v * hidden_states[i]]
        use_cache == ~past_key_value.is_none /\ ~cache_position.is_none
        cache == IF use_cache
                 THEN Some(CacheUpdate(past_key_value.val, xk, xv, self.layer_idx))
                 ELSE past_key_value
        key == IF use_cache THEN cache.val[self.layer_idx].key_states ELSE xk
        value == IF use_cache THEN cache.val[self.layer_idx].value_states ELSE xv
    IN  IF ~attention_mask.is_none /\ ~MaskBroadcasts(attention_mask.val, input_len, Len(key))
        THEN [raised |-> "RuntimeError", past_key_value |-> cache]
        ELSE LET biased == [i \in 1..input_len |-> [j \in 1..Len(key) |->
                               IF attention_mask.is_none THEN xq[i] * key[j]
                               ELSE AddBias(xq[i] * key[j], MaskAt(attention_mask.val, i, j))]]
                 scores == [i \in 1..input_len |-> Softmax(biased[i])]
             IN  [raised |-> "",
                  output |-> [i \in 1..input_len |->
                                 Frac(SumSeq([j \in 1..Len(key) |-> scores[i][j].num * value[j]]),
                                      scores[i][1].den)],
                  scores |-> IF output_attentions THEN Some(scores) ELSE None,
                  num_keys |-> Len(key),
                  past_key_value |-> cache]

\* the caches handed to an attention block: empty, or with one earlier step
Caches ==
    {EmptyCache,
     [l \in 0..MaxLayerIdx |-> [key_states |-> <<1>>, value_states |-> <<-1>>]]}

\* the attention mask of one series as TimesFmStackedDecoder.forward builds it
StackMask(paddings, dtype_max) ==
    _prepare_4d_attention_mask(Some(<<paddings>>), Len(paddings), dtype_max, TRUE).val[1]

\* self_attn(hidden_states, attention_mask, past_key_value, cache_position,
\* output_attentions) on one series
InitAttentionForward ==
    /\ ForwardIdle
    /\ fn = "TimesFmAttention.forward"
    /\ \E n \in 1..MaxSeq :
        fn_args \in [self : [layer_idx : 0..MaxLayerIdx, w : AttnWeights],
                     hidden_states : [1..n -> HiddenVals],
                     paddings : Optional([1..n -> {0, 1}]),
                     dtype_max : AttnDtypeMaxes,
                     past_key_value : Optional(Caches),
                     cache_position : Optional({0}),
                     output_attentions : BOOLEAN]
    /\ fn_ret = None

CallAttentionForward ==
    /\ fn = "TimesFmAttention.forward"
    /\ fn_ret = None
    /\ fn_ret' = Some(AttentionForward(
                          fn_args.self, fn_args.hidden_states,
                          IF fn_args.paddings.is_none THEN None
                          ELSE Some(StackMask(fn_args.paddings.val, fn_args.dtype_max)),
                          fn_args.past_key_value, fn_args.cache_position,
                          fn_args.output_attentions))
    /\ UNCHANGED <<forwardVars, fn, fn_args>>

SpecAttentionForward == InitAttentionForward /\ [][CallAttentionForward]_vars

\* ------------------------------------------------- the stack of layers
Sign(x) == IF x > 0 THEN 1 ELSE IF x < 0 THEN -1 ELSE 0

\* TimesFmRMSNorm and nn.LayerNorm of a hidden state that one number stands
\* for: its sign
Norm(x) == Sign(x.num)

\* down_proj(relu(gate_proj(layer_norm(x)))) of one patch
FeedForward(w, x) == w.down * Max2(0, w.gate * Norm(x) + w.gate_bias) + w.down_bias

\* TimesFmMLP.forward without the zeroing at the padded patches
MlpForwardNoZeroing(w, x, paddings) ==
    [i \in 1..Len(x) |-> Frac(FeedForward(w, x[i]) * x[i].den + x[i].num, x[i].den)]

\* TimesFmMLP.forward(x, paddings) of one series: outputs * (1 - paddings) + x
MlpForward(w, x, paddings) ==
    [i \in 1..Len(x) |->
        LET outputs == IF paddings.is_none THEN FeedForward(w, x[i])
                       ELSE FeedForward(w, x[i]) * (1 - paddings.val[i])
        IN  Frac(outputs * x[i].den + x[i].num, x[i].den)]

\* the greatest common divisor of a >= 0 and b >= 0
RECURSIVE Gcd(_, _)
Gcd(a, b) == IF b = 0 THEN a ELSE Gcd(b, a % b)

\* a + b of two fractions, in lowest terms
FracAdd(a, b) ==
    LET num == a.num * b.den + b.num * a.den
        den == a.den * b.den
        g == Gcd(Abs(num), den)
    IN  Frac(num \div g, den \div g)

\* TimesFmDecoderLayer.forward of one series
DecoderLayerForward(layer, hidden_states, attention_mask, paddings, past_key_value, cache_position, output_attentions) ==
    LET residual == hidden_states
        normed == [i \in 1..Len(hidden_states) |-> Norm(hidden_states[i])]
        attn == AttentionForward(layer.self_attn, normed, attention_mask, past_key_value,
                                 cache_position, output_attentions)
    IN  IF attn.raised # ""
        THEN [raised |-> attn.raised, past_key_value |-> attn.past_key_value]
        ELSE [raised |-> "",
              scores |-> attn.scores,
              hidden_states |->
                  MlpForward(layer.mlp,
                             [i \in 1..Len(residual) |-> FracAdd(residual[i], attn.output[i])],
                             Some(paddings)),
              past_key_value |-> attn.past_key_value]

\* the stacks of num_layers layers: two sets of weights of the attention and
\* of the feed-forward block (gate, down), shared by the layers
StackWeights(num_layers) ==
    {[num_layers |-> num_layers,
      attn_w |-> [q |-> 1, k |-> 1, v |-> 1],
      mlp_w |-> [gate |-> 1, gate_bias |-> 1, down |-> 2, down_bias |-> 1]],
     [num_layers |-> num_layers,
      attn_w |-> [q |-> 1, k |-> -1, v |-> 2],
      mlp_w |-> [gate |-> -1, gate_bias |-> 0, down |-> -1, down_bias |-> -2]]}

\* the layers self.layers[i] of a stack, i from 0
Layer(self, i) == [self_attn |-> [layer_idx |-> i, w |-> self.attn_w], mlp |-> self.mlp_w]

\* one pass of the loop of TimesFmStackedDecoder.forward: layer i has
\* returned out; st holds the loop's variables.  A cache of the caller's
\* list is updated in place.
StackStep(args, i, st, out) ==
    LET cur == st.current_past_key_values
        updated == IF i < Len(cur) THEN [cur EXCEPT ![i + 1] = out.past_key_value.val]
                   ELSE cur
    IN  IF out.raised # ""
        THEN [st EXCEPT !.raised = out.raised, !.current_past_key_values = updated]
        ELSE [st EXCEPT
                 !.hidden_states = out.hidden_states,
                 !.all_attentions =
                     IF args.output_attentions THEN @ \o <<out.scores>> ELSE @,
                 !.all_hidden_states =
                     IF args.output_hidden_states THEN @ \o <<out.hidden_states>> ELSE @,
                 !.current_past_key_values =
                     IF args.past_key_values.is_none
                     THEN updated \o <<out.past_key_value>>
                     ELSE updated]

\* the call of layer i in the loop of TimesFmStackedDecoder.forward
StackLayerCall(self, args, i, st) ==
    LET cur == st.current_past_key_values
        past_key_value == IF i < Len(cur) THEN Some(cur[i + 1]) ELSE None
    IN  DecoderLayerForward(Layer(self, i), st.hidden_states, st.attention_mask,
                            args.paddings, past_key_value, args.cache_position,
                            args.output_attentions)

\* the loop of TimesFmStackedDecoder.forward from layer i on.  The variables
\* after a pass are bound as the element of a singleton, so that a pass is
\* evaluated once.
RECURSIVE StackLoop(_, _, _, _)
StackLoop(self, args, i, st) ==
    IF i >= self.num_layers \/ st.raised # "" THEN st
    ELSE CHOOSE final \in
             {StackLoop(self, args, i + 1, next) :
                 next \in {StackStep(args, i, st, out) :
                              out \in {StackLayerCall(self, args, i, st)}}} : TRUE

\* TimesFmStackedDecoder.forward of one series: the BaseModelOutputWithPast,
\* or the exception.  An empty list is false in Python.
StackedDecoderForward(self, args) ==
    LET st0 == [raised |-> "",
                hidden_states |-> [i \in 1..Len(args.hidden_states) |->
                                      Frac(args.hidden_states[i], 1)],
                attention_mask |-> Some(StackMask(args.paddings, args.dtype_max)),
                all_attentions |-> <<>>,
                all_hidden_states |-> <<>>,
                current_past_key_values |->
                    IF args.past_key_values.is_none THEN <<>> ELSE args.past_key_values.val]
        st == StackLoop(self, args, 0, st0)
    IN  IF st.raised # "" THEN [raised |-> st.raised]
        ELSE [raised |-> "",
              last_hidden_state |-> st.hidden_states,
              past_key_values |-> IF st.current_past_key_values # <<>>
                                  THEN Some(st.current_past_key_values) ELSE None,
              attentions |-> IF args.output_attentions THEN Some(st.all_attentions) ELSE None,
              hidden_states |-> IF args.output_hidden_states
                                THEN Some(st.all_hidden_states) ELSE None]

\* past_key_values of the TimesFmOutput of TimesFmModel.forward and of the
\* TimesFmOutputForPrediction of TimesFmModelForPrediction.forward: the
\* stack's, handed on
ModelPastKeyValues(transformer_output) == transformer_output.past_key_values

PredictionPastKeyValues(decoder_output_past_key_values) == decoder_output_past_key_values

\* the lists of caches handed to a stack of num_layers layers
CacheLists(num_layers) == {[l \in 1..num_layers |-> EmptyCache]}

\* self.stacked_transformer(hidden_states, paddings, ...) on one series; a
\* cache_position is given only along with a cache
InitStackedDecoder ==
    /\ ForwardIdle
    /\ fn = "TimesFmStackedDecoder.forward"
    /\ \E n \in 1..MaxSeq, num_layers \in 0..(MaxLayerIdx + 1) :
        fn_args \in [self : StackWeights(num_layers),
                     hidden_states : [1..n -> HiddenVals],
                     paddings : [1..n -> {0, 1}],
                     dtype_max : AttnDtypeMaxes,
                     past_key_values : Optional(CacheLists(num_layers)),
                     cache_position : Optional({0}),
                     output_attentions : BOOLEAN,
                     output_hidden_states : BOOLEAN]
    /\ fn_args.past_key_values.is_none => fn_args.cache_position.is_none
    /\ fn_ret = None

CallStackedDecoder ==
    /\ fn = "TimesFmStackedDecoder.forward"
    /\ fn_ret = None
    /\ LET out == StackedDecoderForward(fn_args.self, fn_args)
       IN  fn_ret' = Some(IF out.raised # "" THEN out
                          ELSE [stack |-> out,
                                model_past_key_values |-> ModelPastKeyValues(out),
                                prediction_past_key_values |->
                                    PredictionPastKeyValues(ModelPastKeyValues(out)),
                                raised |-> ""])
    /\ UNCHANGED <<forwardVars, fn, fn_args>>

SpecStackedDecoder == InitStackedDecoder /\ [][CallStackedDecoder]_vars

\* ------------------------------------------------ timesfm_shift_padded_seq
\* the number of patches of the position-embedding scenarios
MaxShiftLen == 4

\* timesfm_shift_padded_seq rotating the other way
ShiftPaddedSeqBackwards(mask, seq) ==
    LET num_seq == Len(seq)
        unpadded == {j \in 0..(num_seq - 1) : mask[j + 1] = 0}
        index == IF unpadded = {} THEN -1
                 ELSE CHOOSE j \in unpadded : \A k \in unpadded : j <= k
    IN  [j \in 1..num_seq |-> seq[((j - 1 + index) % num_seq) + 1]]

\* timesfm_shift_padded_seq of one series: row j of the result is row
\* (j - index) % num_seq of seq, index being the first patch with mask 0, or
\* -1 when every patch is padded.  Rows are counted from 0 in the code.
timesfm_shift_padded_seq(mask, seq) ==
    LET num_seq == Len(seq)
        unpadded == {j \in 0..(num_seq - 1) : mask[j + 1] = 0}
        index == IF unpadded = {} THEN -1
                 ELSE CHOOSE j \in unpadded : \A k \in unpadded : j <= k
    IN  [j \in 1..num_seq |-> seq[((j - 1 - index) % num_seq) + 1]]

\* the position embeddings: one number per row stands for the row
PosEmbeddings(n) == {[j \in 1..n |-> 10 * j], [j \in 1..n |-> -j]}

InitShiftPaddedSeq ==
    /\ ForwardIdle
    /\ fn = "timesfm_shift_padded_seq"
    /\ \E n \in 1..MaxShiftLen :
        fn_args \in [mask : [1..n -> {0, 1}], seq : PosEmbeddings(n)]
    /\ fn_ret = None

CallShiftPaddedSeq ==
    /\ fn = "timesfm_shift_padded_seq"
    /\ fn_ret = None
    /\ fn_ret' = Some(timesfm_shift_padded_seq(fn_args.mask, fn_args.seq))
    /\ UNCHANGED <<forwardVars, fn, fn_args>>

SpecShiftPaddedSeq == InitShiftPaddedSeq /\ [][CallShiftPaddedSeq]_vars

\* ---------------------------------------------------- _preprocess_input
\* torch.min(patched_pads, dim=-1) taken as the largest flag of the patch
PatchedPaddingMax(patched_pads) ==
    [n \in 1..Len(patched_pads) |-> MaxSeqVal(patched_pads[n])]

\* torch.min(patched_pads, dim=-1)[0]: the flag of every patch
PatchedPadding(patched_pads) ==
    [n \in 1..Len(patched_pads) |-> MinSeq(patched_pads[n])]

\* _preprocess_input of one series, up to the input embedding: the patches
\* are masked, normalized and flagged.  model_input, the embedding of the
\* patches by input_ff_layer, is not modelled.
_preprocess_input(series, padding, cfg, rounding) ==
    LET pads0 == Patches(padding, cfg.patch_len)
        inputs0 == Patches(series, cfg.patch_len)
        inputs1 == [n \in 1..Len(inputs0) |-> [k \in 1..cfg.patch_len |->
                       IF pads0[n][k] = 1 THEN 0 ELSE inputs0[n][k]]]
        patched_pads == [n \in 1..Len(inputs1) |-> [k \in 1..cfg.patch_len |->
                            IF inputs1[n][k] = cfg.pad_val THEN 1 ELSE pads0[n][k]]]
        transformed == _forward_transform(inputs1, patched_pads, cfg, rounding)
    IN  [patched_pads |-> patched_pads,
         patched_padding |-> PatchedPadding(patched_pads),
         stats |-> [mu |-> transformed.mu, sigma |-> transformed.sigma],
         patched_inputs |-> [n \in 1..Len(inputs1) |-> [k \in 1..cfg.patch_len |->
                                IF patched_pads[n][k] = 1 THEN [is_zero |-> TRUE]
                                ELSE transformed.outputs[n][k]]]]

\* a series of ones with at most one element equal to pad_val
SentinelSeries(len) ==
    {[k \in 1..len |-> IF k = at THEN PadVal ELSE 1] : at \in 0..len}

InitPreprocessInput ==
    /\ ForwardIdle
    /\ fn = "_preprocess_input"
    /\ \E n \in 1..MaxPatches :
        fn_args \in [input_ts : SentinelSeries(n * PatchLen),
                     input_padding : [1..(n * PatchLen) -> {0, 1}],
                     config : [tolerance : Tolerances, pad_val : {PadVal},
                               patch_len : {PatchLen}],
                     rounding : RoundingErrors]
    /\ fn_ret = None

CallPreprocessInput ==
    /\ fn = "_preprocess_input"
    /\ fn_ret = None
    /\ fn_ret' = Some(_preprocess_input(fn_args.input_ts, fn_args.input_padding,
                                        fn_args.config, fn_args.rounding))
    /\ UNCHANGED <<forwardVars, fn, fn_args>>

SpecPreprocessInput == InitPreprocessInput /\ [][CallPreprocessInput]_vars

\* ------------------------------------------- TimesFmModel.forward, one series
\* a * b of two fractions, in lowest terms
FracMul(a, b) ==
    LET num == a.num * b.num
        den == a.den * b.den
        g == Gcd(Abs(num), den)
    IN  Frac(num \div g, den \div g)

RECURSIVE FracSum(_)
FracSum(s) == IF s = <<>> THEN Frac(0, 1) ELSE FracAdd(Head(s), FracSum(Tail(s)))

\* sigma is a rational number: the numerator and the denominator of its
\* square, in lowest terms, are squares
IsRational(sigma) ==
    LET v == FracMul(sigma.squared, Frac(1, 1))
    IN  /\ \E r \in 0..v.num : r * r = v.num
        /\ \E r \in 1..v.den : r * r = v.den

\* the value of a rational sigma
SqrtValue(sigma) ==
    LET v == FracMul(sigma.squared, Frac(1, 1))
    IN  Frac(CHOOSE r \in 0..v.num : r * r = v.num, CHOOSE r \in 1..v.den : r * r = v.den)

\* the value of an element of patched_inputs * (1.0 - patched_pads): 0, or
\* (x - mu) / sigma
ElementValue(e) ==
    IF "is_zero" \in DOMAIN e THEN Frac(0, 1)
    ELSE FracMul(e.centered, Frac(SqrtValue(e.over).den, SqrtValue(e.over).num))

\* input_ff_layer(concat([patched_inputs, patched_pads])) of one patch: the
\* residual block reads every value and every pad flag of the patch; the sum
\* stands for it, one number for the model_dim outputs.
InputFfLayer(patch, pads) ==
    FracAdd(FracSum([k \in 1..Len(patch) |-> ElementValue(patch[k])]),
            Frac(SumSeq(pads), 1))

\* self.freq_emb(freq)
FreqEmb(freq_id) == Frac(freq_id + 1, 1)

\* self.position_emb(n): one number per row
PositionEmb(n) == [j \in 1..n |-> 10 * j]

\* horizon_ff_layer(model_output) of one patch, then _reverse_transform:
\* outputs * sigma + mu, for one output step and channel
PostprocessOutput(hidden, stats) ==
    FracAdd(FracMul(FracAdd(FracMul(Frac(2, 1), hidden), Frac(1, 1)),
                    SqrtValue(stats.sigma)),
            stats.mu)

\* self.stacked_transformer(model_input, patched_padding) of TimesFmModel.forward:
\* the loop of the stack, no cache, no attentions and no hidden states asked
ModelStack(self, model_input, patched_padding, dtype_max) ==
    StackLoop(self,
              [paddings |-> patched_padding, cache_position |-> None,
               past_key_values |-> None, output_attentions |-> FALSE,
               output_hidden_states |-> FALSE],
              0,
              [raised |-> "", hidden_states |-> model_input,
               attention_mask |-> Some(StackMask(patched_padding, dtype_max)),
               all_attentions |-> <<>>, all_hidden_states |-> <<>>,
               current_past_key_values |-> <<>>])

\* TimesFmModel.forward after _preprocess_input returned pre: the embedding
\* of the patches, the stack, and _postprocess_output on its hidden states:
\* fprop_outputs[n] of one series
ModelForwardFrom(self, pre, cfg, freq_id) ==
    LET num_patches == Len(pre.patched_padding)
        pos_emb == timesfm_shift_padded_seq(pre.patched_padding, PositionEmb(num_patches))
    IN  CHOOSE fprop \in
            {[n \in 1..num_patches |-> PostprocessOutput(last_hidden_state[n], pre.stats)] :
                last_hidden_state \in
                    {ModelStack(self, model_input, pre.patched_padding, cfg.dtype_max).hidden_states :
                        model_input \in
                            {[n \in 1..num_patches |->
                                 FracAdd(FracAdd(InputFfLayer(pre.patched_inputs[n],
                                                              pre.patched_pads[n]),
                                                 IF cfg.use_positional_embedding
                                                 THEN Frac(pos_emb[n], 1) ELSE Frac(0, 1)),
                                         FreqEmb(freq_id))]}}} : TRUE

\* self.decoder(input_ts, input_padding, inp_freq) and _postprocess_output
\* of one series, in exact arithmetic: the forecast emitted from every patch
TimesFmModelForward(self, series, padding, cfg, freq_id) ==
    CHOOSE fprop \in {ModelForwardFrom(self, pre, cfg, freq_id) :
                         pre \in {_preprocess_input(series, padding, cfg, 0)}} : TRUE

\* series with the values of patch j, counted from 1, raised by d
ShiftPatch(series, j, d, patch_len) ==
    [k \in 1..Len(series) |->
        IF (j - 1) * patch_len < k /\ k <= j * patch_len THEN series[k] + d ELSE series[k]]

\* the configurations of the decoder scenarios
DecoderConfigs ==
    [tolerance : Tolerances, pad_val : {PadVal}, patch_len : {StatPatchLen},
     dtype_max : AttnDtypeMaxes, use_positional_embedding : BOOLEAN]

\* sigma of the series is rational, so that the forecast is
HasRationalSigma(series, padding, cfg) ==
    IsRational(_preprocess_input(series, padding, cfg, 0).stats.sigma)

\* Two calls of the decoder under the same model, on windows of left-padded
\* series that differ in the values of one patch after the first.
InitModelForward ==
    /\ ForwardIdle
    /\ fn = "TimesFmModel.forward"
    /\ \E n \in 2..MaxStatPatches, j \in 2..MaxStatPatches, d \in {1, 2},
          num_front_pad \in 0..(MaxStatPatches * StatPatchLen) :
        /\ j <= n
        /\ num_front_pad <= n * StatPatchLen
        /\ fn_args \in [self : StackWeights(1),
                        inputs : StatSeries(n * StatPatchLen),
                        padding : {[k \in 1..(n * StatPatchLen) |->
                                       IF k <= num_front_pad THEN 1 ELSE 0]},
                        config : DecoderConfigs,
                        patch : {j}, shift : {d}]
    /\ HasRationalSigma(fn_args.inputs, fn_args.padding, fn_args.config)
    /\ HasRationalSigma(ShiftPatch(fn_args.inputs, fn_args.patch, fn_args.shift,
                                   fn_args.config.patch_len),
                        fn_args.padding, fn_args.config)
    /\ fn_ret = None

CallModelForward ==
    /\ fn = "TimesFmModel.forward"
    /\ fn_ret = None
    /\ LET other == ShiftPatch(fn_args.inputs, fn_args.patch, fn_args.shift,
                               fn_args.config.patch_len)
       IN  fn_ret' = Some([fprop_outputs |->
                               TimesFmModelForward(fn_args.self, fn_args.inputs,
                                                   fn_args.padding, fn_args.config, 0),
                           other_inputs |-> other,
                           other_fprop_outputs |->
                               TimesFmModelForward(fn_args.self, other, fn_args.padding,
                                                   fn_args.config, 0)])
    /\ UNCHANGED <<forwardVars, fn, fn_args>>

SpecModelForward == InitModelForward /\ [][CallModelForward]_vars

\* ===================================================================== claims
\* forward has ended: it returned or it raised
Terminal == pc \in {"returned", "raised"}

\* rows is a tensor of shape (n, m)
IsShape2(rows, n, m) == Len(rows) = n /\ \A b \in 1..n : Len(rows[b]) = m

\* rows is a tensor of shape (n, m, c)
IsShape3(rows, n, m, c) ==
    /\ Len(rows) = n
    /\ \A b \in 1..n : Len(rows[b]) = m /\ \A t \in 1..m : Len(rows[b][t]) = c

\* row holds the last k values of src at its right end, after zeros
RightAligned(row, src, k) ==
    \A j \in 1..Len(row) :
        row[j] = IF j <= Len(row) - k THEN 0 ELSE src[Len(src) - Len(row) + j]

\* the least k with k * b >= a
Ceil(a, b) == CHOOSE k \in 0..a : k * b >= a /\ (k - 1) * b < a

\* C1: every call of forward without return_forecast_on_context, on any
\* non-empty batch of n non-empty series and with any forecast_context_len
\* and window_size, returns mean_predictions of shape (n, horizon_len) and
\* full_predictions of shape (n, horizon_len, 1 + number of quantiles).
C1_ForwardReturnsShapes ==
    (Terminal /\ (IsSet(return_forecast_on_context) =>
                      ~return_forecast_on_context.val)) =>
        /\ pc = "returned"
        /\ IsShape2(result.val.mean_predictions, Len(call_inputs), horizon_len)
        /\ IsShape3(result.val.full_predictions, Len(call_inputs), horizon_len,
                    1 + Len(config.quantiles))

\* C2: after _preprocess every series of the batch has length context_len
\* and holds, right-aligned after zeros and in their order, the values
\* _preprocess was given, at most context_len of them; without decomposition
\* these are the last min(L, forecast_context_len, context_len) values of
\* the original series of length L.
C2_PreprocessRightAligned ==
    pc = "check" =>
        \A b \in 1..Len(input_ts) :
            /\ Len(input_ts[b]) = config.context_len
            /\ RightAligned(input_ts[b], inputs[b].data,
                            Min2(Len(inputs[b].data), config.context_len))
            /\ window_size.is_none =>
                   LET L == Len(call_inputs[b].data)
                       k == IF forecast_context_len.is_none
                            THEN Min2(L, config.context_len)
                            ELSE Min2(L, Min2(forecast_context_len.val, config.context_len))
                   IN  RightAligned(input_ts[b], call_inputs[b].data, k)

\* C2 happens: a series longer than forecast_context_len, which is shorter
\* than context_len, has been preprocessed: it is cut and padded.
C2_Witness ==
    /\ pc = "check"
    /\ window_size.is_none
    /\ ~forecast_context_len.is_none
    /\ forecast_context_len.val < config.context_len
    /\ \E b \in 1..Len(call_inputs) : Len(call_inputs[b].data) > forecast_context_len.val

\* C3: the pad mask of every series has length context_len + horizon_len,
\* is 1 on the left-padded prefix and 0 on every real history position and
\* on the horizon.
C3_PadMask ==
    pc = "check" =>
        \A b \in 1..Len(input_padding) :
            LET k == Min2(Len(inputs[b].data), config.context_len)
            IN  /\ Len(input_padding[b]) = config.context_len + horizon_len
                /\ \A j \in 1..Len(input_padding[b]) :
                       input_padding[b][j] = IF j <= config.context_len - k THEN 1 ELSE 0

\* C3 happens: a batch with a padded series and a series cut to context_len
\* has been preprocessed.
C3_Witness ==
    /\ pc = "check"
    /\ \E b \in 1..Len(inputs) : Len(inputs[b].data) < config.context_len
    /\ \E b \in 1..Len(inputs) : Len(inputs[b].data) > config.context_len

AllNonNegative(batch) ==
    \A b \in 1..Len(batch) : \A k \in 1..Len(batch[b].data) : batch[b].data[k] >= 0

\* C5: with truncate_negative set and no negative input value, forward
\* returns mean_predictions and full_predictions whose values are all >= 0.
C5_TruncateNegativeClamps ==
    (/\ Terminal
     /\ IsSet(truncate_negative)
     /\ truncate_negative.val
     /\ AllNonNegative(call_inputs)) =>
        /\ pc = "returned"
        /\ \A b \in 1..Len(result.val.mean_predictions) :
               \A t \in 1..Len(result.val.mean_predictions[b]) :
                   /\ result.val.mean_predictions[b][t] >= 0
                   /\ \A c \in 1..Len(result.val.full_predictions[b][t]) :
                          result.val.full_predictions[b][t][c] >= 0

\* the forecast of row r of the batch, as forward cuts it: of the last decode
\* step's window of that row
RowForecast(r) ==
    LET fprop == FpropOutputs(weights, input_ts[r], input_padding[r], config)
        joined == (IF return_forecast_on_context.val
                   THEN ContextForecast(fprop, config.patch_len) ELSE <<>>)
                  \o LastPatchForecast(fprop, output_patch_len)
    IN  SliceFirst(joined, IF return_forecast_on_context.val
                           THEN context_len - config.patch_len + horizon_len
                           ELSE horizon_len)

\* C6: with window_size given, series i becomes the rows 2i-1 (its trend)
\* and 2i (its residual) of the batch, which add up to the series, and output
\* row i of mean_predictions and of full_predictions is the sum of the
\* forecasts of these two rows.
C6_TrendPlusResidual ==
    (pc \in {"loss", "returned"} /\ ~window_size.is_none) =>
        /\ Len(mean_outputs) = Len(call_inputs)
        /\ Len(full_outputs) = Len(call_inputs)
        /\ Len(inputs) = 2 * Len(call_inputs)
        /\ \A i \in 1..Len(call_inputs) :
            LET trend == inputs[2 * i - 1].data
                residual == inputs[2 * i].data
                x == call_inputs[i].data
            IN  /\ Len(trend) = Len(residual)
                /\ \A k \in 1..Len(trend) :
                       trend[k] + residual[k] = x[Len(x) - Len(trend) + k]
                /\ \A j \in 0..1 :
                       RightAligned(SubSeq(final_out[2 * i - j], 1, context_len),
                                    inputs[2 * i - j].data,
                                    Min2(Len(trend), context_len))
                /\ \A t \in 1..Len(mean_outputs[i]) :
                       /\ mean_outputs[i][t]
                              = RowForecast(2 * i - 1)[t][1] + RowForecast(2 * i)[t][1]
                       /\ \A c \in 1..Len(full_outputs[i][t]) :
                              full_outputs[i][t][c]
                                  = RowForecast(2 * i - 1)[t][c] + RowForecast(2 * i)[t][c]

\* C6 happens: forward has returned the forecasts of two series that were
\* decomposed, and the two forecasts differ.
C6_Witness ==
    /\ pc = "returned"
    /\ ~window_size.is_none
    /\ Len(call_inputs) = 2
    /\ result.val.mean_predictions[1] # result.val.mean_predictions[2]

\* the sum of x[t-w+1..t], a value before the first counting as 0
WindowSum(x, t, w) ==
    SumSeq([k \in 1..w |-> IF t - w + k >= 1 THEN x[t - w + k] ELSE 0])

\* C7: timesfm_moving_average(x, w) returns a trend and a residual of the
\* length of x, with trend[t] = (sum of x[t-w+1..t]) / w and residual =
\* x - trend; with w = 1 the trend is x and the residual is 0.
C7_MovingAverage ==
    (fn = "timesfm_moving_average" /\ ~fn_ret.is_none) =>
        LET x == fn_args.arr.data
            w == fn_args.window_size
            trend == fn_ret.val[1]
            residual == fn_ret.val[2]
        IN  /\ trend.ndim = 1 /\ Len(trend.data) = Len(x)
            /\ residual.ndim = 1 /\ Len(residual.data) = Len(x)
            /\ \A t \in 1..Len(x) :
                   /\ w * trend.data[t] = WindowSum(x, t, w)
                   /\ residual.data[t] = x[t] - trend.data[t]
                   /\ w = 1 => (trend.data[t] = x[t] /\ residual.data[t] = 0)

\* the sum of |targets - predictions[..., i]| over all entries
SumAbsErrors(predictions, targets, i) ==
    SumSeq([b \in 1..Len(predictions) |->
        SumSeq([t \in 1..Len(predictions[b]) |->
            Abs(targets[b][t] - predictions[b][t][i])])])

\* C8: for the quantile level 0.5 the pinball loss of _quantile_loss is half
\* the mean absolute error of that channel; when 0.5 is the only level, so is
\* the loss _quantile_loss returns.  The loss is num/den, the mean absolute
\* error is the sum of the errors over their number.
C8_PinballHalfMae ==
    (fn = "_quantile_loss" /\ ~fn_ret.is_none) =>
        LET predictions == fn_args.predictions
            targets == fn_args.targets
            n == Count(targets)
        IN  /\ \A i \in 1..Len(fn_args.quantiles) :
                   fn_args.quantiles[i] = 5 =>
                       2 * fn_ret.val.losses[i].num * n
                           = SumAbsErrors(predictions, targets, i) * fn_ret.val.losses[i].den
            /\ fn_args.quantiles = <<5>> =>
                   2 * fn_ret.val.loss.num * n
                       = SumAbsErrors(predictions, targets, 1) * fn_ret.val.loss.den

\* C8 happens: _quantile_loss has returned for the single level 0.5, with a
\* prediction above its target and one below.
C8_Witness ==
    /\ fn = "_quantile_loss"
    /\ ~fn_ret.is_none
    /\ fn_args.quantiles = <<5>>
    /\ \E t \in 1..Len(fn_args.targets[1]) :
           fn_args.targets[1][t] > fn_args.predictions[1][t][1]
    /\ \E t \in 1..Len(fn_args.targets[1]) :
           fn_args.targets[1][t] < fn_args.predictions[1][t][1]

\* C9: when the pad mask's length is not the series' length plus
\* horizon_len, the check raises ValueError: no decoder pass has run, none
\* runs after, and forward returns nothing.
C9_MismatchRaises ==
    [][/\ (pc = "check" /\ Len(input_padding[1]) # Len(input_ts[1]) + horizon_len) =>
              /\ pc' = "raised"
              /\ err' = Some("ValueError")
              /\ result' = None
              /\ full_outputs' = <<>>
              /\ step_index' = Unset
       /\ pc = "raised" => pc' = "raised"]_pc

\* C9 happens: forward has raised ValueError.
C9_Witness == pc = "raised" /\ err = Some("ValueError")

\* C10: constructing the attention block under a configuration whose
\* num_heads is not a multiple of num_key_value_heads fails.
C10_IndivisibleHeadsFail ==
    (/\ fn = "TimesFmDecoderLayer"
     /\ ~fn_ret.is_none
     /\ fn_args.config.attn_implementation \in TIMESFM_ATTENTION_CLASSES
     /\ fn_args.config.num_heads % fn_args.config.num_key_value_heads # 0) =>
        fn_ret.val.raised # ""

\* C11: the scale sigma that _forward_transform returns is > 0, for every
\* window and pad mask: constant series, fully padded patches, a variance
\* estimate of zero or below; a sigma below tolerance is returned as 1.
C11_SigmaPositive ==
    (fn = "_forward_transform" /\ ~fn_ret.is_none) =>
        LET sigma == fn_ret.val.sigma
            std == timesfm_masked_mean_std(fn_args.inputs, fn_args.patched_pads,
                                           fn_args.rounding).masked_std
        IN  /\ sigma.squared.num > 0 /\ sigma.squared.den > 0
            /\ SqrtLess(std, fn_args.config.tolerance) => sigma = Sqrt(Frac(1, 1))

\* C11 happens: _forward_transform has returned for a patch of three equal
\* unpadded values, whose variance estimate came out below zero.
C11_Witness ==
    /\ fn = "_forward_transform"
    /\ ~fn_ret.is_none
    /\ fn_args.rounding < 0
    /\ LET n == fn_ret.val.patch_index
       IN  /\ CountEq(fn_args.patched_pads[n], 0) >= 3
           /\ \A k \in 1..Len(fn_args.inputs[n]) :
                  fn_args.inputs[n][k] = fn_args.inputs[n][1]
    /\ fn_ret.val.sigma = Sqrt(Frac(1, 1))

\* the unpadded values of a patch, in their order
RECURSIVE Unpadded(_, _)
Unpadded(patch, pad) ==
    IF patch = <<>> THEN <<>>
    ELSE (IF Head(pad) = 0 THEN <<Head(patch)>> ELSE <<>>)
             \o Unpadded(Tail(patch), Tail(pad))

C12_FallbackReached ==
    /\ fn = "timesfm_masked_mean_std"
    /\ ~fn_ret.is_none
    /\ Len(fn_args.padding) = 2
    /\ \A n \in 1..2 : CountEq(fn_args.padding[n], 0) < 3
    /\ fn_ret.val.patch_index = 2

\* C13: with return_forecast_on_context the returned forecast has the time
\* length context_len - patch_len + horizon_len, for every input length and
\* every forecast_context_len; without it the time length is horizon_len.
C13_ForecastOnContextLength ==
    pc = "returned" =>
        LET len == IF return_forecast_on_context.val
                   THEN config.context_len - config.patch_len + horizon_len
                   ELSE horizon_len
        IN  /\ \A b \in 1..Len(result.val.mean_predictions) :
                   Len(result.val.mean_predictions[b]) = len
            /\ \A b \in 1..Len(result.val.full_predictions) :
                   Len(result.val.full_predictions[b]) = len

\* C13 without return_forecast_on_context, which holds: the time length is
\* horizon_len.
C13_HorizonLengthWithoutContext ==
    (pc = "returned" /\ ~return_forecast_on_context.val) =>
        \A b \in 1..Len(result.val.mean_predictions) :
            Len(result.val.mean_predictions[b]) = horizon_len

\* C15: for every series b, query patch i and key patch j the bias of
\* _prepare_4d_attention_mask is -0.7 * max(dtype) if j > i or key j is
\* padded, and 0 otherwise: a key that is future and padded gets the
\* constant once, no entry is below it and none is below -max(dtype).
C15_AttentionBias ==
    (/\ fn = "_prepare_4d_attention_mask"
     /\ ~fn_ret.is_none
     /\ ~fn_args.attention_mask.is_none
     /\ fn_args.is_causal) =>
        LET mask == fn_ret.val.val
            pad == fn_args.attention_mask.val
            n == fn_args.sequence_length
        IN  /\ Len(mask) = Len(pad)
            /\ \A b \in 1..Len(pad) :
                   /\ Len(mask[b]) = n
                   /\ \A i \in 1..n :
                          /\ Len(mask[b][i]) = n
                          /\ \A j \in 1..n :
                                 /\ 10 * mask[b][i][j]
                                        = IF j > i \/ pad[b][j] = 1
                                          THEN -7 * fn_args.dtype_max ELSE 0
                                 /\ mask[b][i][j] > -fn_args.dtype_max

\* C15 happens: the mask has been built for a batch of two series, one of
\* them with a padded key that lies in the future of the first query.
C15_Witness ==
    /\ fn = "_prepare_4d_attention_mask"
    /\ ~fn_ret.is_none
    /\ ~fn_args.attention_mask.is_none
    /\ fn_args.is_causal
    /\ Len(fn_args.attention_mask.val) = 2
    /\ fn_args.sequence_length >= 2
    /\ fn_args.attention_mask.val[1] # fn_args.attention_mask.val[2]
    /\ fn_args.attention_mask.val[2][2] = 1
    /\ 10 * fn_ret.val.val[2][1][2] = -7 * fn_args.dtype_max

\* the call of the attention block is a single-shot pass under a pad mask,
\* and it returned its attention weights
SingleShotScores ==
    /\ fn = "TimesFmAttention.forward"
    /\ ~fn_ret.is_none
    /\ ~fn_args.paddings.is_none
    /\ fn_args.past_key_value.is_none
    /\ fn_args.output_attentions

\* C16: for every pad mask and every query patch i, every key patch j that is
\* later than i or padded has the attention weight 0 after the softmax.
C16_MaskedKeysGetZeroWeight ==
    SingleShotScores =>
        \A i \in 1..Len(fn_args.hidden_states) :
            \A j \in 1..Len(fn_args.hidden_states) :
                (j > i \/ fn_args.paddings.val[j] = 1) =>
                    fn_ret.val.scores.val[i][j].num = 0

\* C16 for the queries that have an unpadded key at or before them, which
\* holds: the later and the padded keys have the weight 0.
C16_ZeroWeightWhenAKeyIsAllowed ==
    SingleShotScores =>
        \A i \in 1..Len(fn_args.hidden_states) :
            (\E k \in 1..i : fn_args.paddings.val[k] = 0) =>
                \A j \in 1..Len(fn_args.hidden_states) :
                    (j > i \/ fn_args.paddings.val[j] = 1) =>
                        fn_ret.val.scores.val[i][j].num = 0

\* a cache is supplied to the attention block, which has returned
CacheSupplied ==
    /\ fn = "TimesFmAttention.forward"
    /\ ~fn_ret.is_none
    /\ ~fn_args.past_key_value.is_none

\* C17: whenever a cache is supplied to an attention block, the keys and
\* values of the step are appended to it under the block's layer index, the
\* other layers are left alone, and the scores are computed against the
\* whole extended history.
C17_CacheAppendedAndUsed ==
    CacheSupplied =>
        LET before == fn_args.past_key_value.val
            after == fn_ret.val.past_key_value.val
            l == fn_args.self.layer_idx
            n == Len(fn_args.hidden_states)
        IN  /\ Len(after[l].key_states) = Len(before[l].key_states) + n
            /\ Len(after[l].value_states) = Len(before[l].value_states) + n
            /\ \A k \in 1..n :
                   /\ after[l].key_states[Len(before[l].key_states) + k]
                          = fn_args.self.w.k * fn_args.hidden_states[k]
                   /\ after[l].value_states[Len(before[l].value_states) + k]
                          = fn_args.self.w.v * fn_args.hidden_states[k]
            /\ \A m \in 0..MaxLayerIdx : m # l => after[m] = before[m]
            /\ fn_ret.val.raised = ""
            /\ fn_ret.val.num_keys = Len(after[l].key_states)

\* C17 for the calls with a cache, a cache_position and no attention mask,
\* which holds.
C17_WithCachePosition ==
    (CacheSupplied /\ ~fn_args.cache_position.is_none /\ fn_args.paddings.is_none) =>
        C17_CacheAppendedAndUsed

\* C14: in a single-shot pass, no cache being supplied to the decoder stack,
\* past_key_values of the stack's output and of the forecast output is None.
C14_NoCacheInSingleShot ==
    (/\ fn = "TimesFmStackedDecoder.forward"
     /\ ~fn_ret.is_none
     /\ fn_args.past_key_values.is_none) =>
        /\ fn_ret.val.raised = ""
        /\ fn_ret.val.stack.past_key_values = None
        /\ fn_ret.val.model_past_key_values = None
        /\ fn_ret.val.prediction_past_key_values = None

\* C20: in every decoder layer, at every patch flagged padded, the output of
\* the feed-forward block is its input, the hidden state after the
\* attention's residual add, whatever the weights.
C20_MlpZeroedAtPaddedPatches ==
    (/\ fn = "TimesFmStackedDecoder.forward"
     /\ ~fn_ret.is_none
     /\ fn_args.output_hidden_states
     /\ fn_ret.val.raised = "") =>
        LET hs == fn_ret.val.stack.hidden_states.val
            n == Len(fn_args.hidden_states)
            before(l) == IF l = 1 THEN [i \in 1..n |-> Frac(fn_args.hidden_states[i], 1)]
                         ELSE hs[l - 1]
            attn(l) == AttentionForward(
                           Layer(fn_args.self, l - 1).self_attn,
                           [i \in 1..n |-> Norm(before(l)[i])],
                           Some(StackMask(fn_args.paddings, fn_args.dtype_max)),
                           IF fn_args.past_key_values.is_none
                              \/ fn_args.past_key_values.val = <<>>
                           THEN None ELSE Some(EmptyCache),
                           fn_args.cache_position, FALSE).output
        IN  /\ Len(hs) = fn_args.self.num_layers
            /\ \A l \in 1..Len(hs) :
                   \A i \in 1..n :
                       fn_args.paddings[i] = 1 =>
                           hs[l][i] = FracAdd(before(l)[i], attn(l)[i])

\* C20 happens: a stack of two layers has run on a window with a padded and
\* an unpadded patch, where the feed-forward block changed the unpadded one.
C20_Witness ==
    /\ fn = "TimesFmStackedDecoder.forward"
    /\ ~fn_ret.is_none
    /\ fn_args.output_hidden_states
    /\ fn_ret.val.raised = ""
    /\ fn_args.self.num_layers = 2
    /\ fn_args.paddings = <<1, 0>>
    /\ fn_ret.val.stack.hidden_states.val[1][2]
           # fn_ret.val.stack.hidden_states.val[2][2]

\* C18: timesfm_shift_padded_seq rotates the rows of seq by f, the index of
\* the first unpadded patch: row j of the result is row (j - f) mod N of seq,
\* row 0 of seq lands on patch f; under an all-zero mask the result is seq.
C18_ShiftRotatesByFirstUnpadded ==
    (/\ fn = "timesfm_shift_padded_seq"
     /\ ~fn_ret.is_none
     /\ \E j \in 1..Len(fn_args.mask) : fn_args.mask[j] = 0) =>
        LET N == Len(fn_args.seq)
            f == CHOOSE j \in 0..(N - 1) :
                     fn_args.mask[j + 1] = 0 /\ \A k \in 0..(j - 1) : fn_args.mask[k + 1] = 1
        IN  /\ Len(fn_ret.val) = N
            /\ \A j \in 0..(N - 1) :
                   fn_ret.val[j + 1]
                       = fn_args.seq[(IF j >= f THEN j - f ELSE j - f + N) + 1]
            /\ fn_ret.val[f + 1] = fn_args.seq[1]
            /\ f = 0 => fn_ret.val = fn_args.seq

\* C18 happens: the rows have been rotated by two patches.
C18_Witness ==
    /\ fn = "timesfm_shift_padded_seq"
    /\ ~fn_ret.is_none
    /\ Len(fn_args.mask) = 4
    /\ fn_args.mask[1] = 1 /\ fn_args.mask[2] = 1 /\ fn_args.mask[3] = 0
    /\ fn_ret.val[3] = fn_args.seq[1]
    /\ fn_ret.val[1] = fn_args.seq[3]

\* element k of patch n is padded: by the pad mask, or by its value pad_val
ElementPadded(n, k) ==
    LET at == (n - 1) * fn_args.config.patch_len + k
    IN  fn_args.input_padding[at] = 1 \/ fn_args.input_ts[at] = fn_args.config.pad_val

\* C19 as amended: the patch-level flag of _preprocess_input marks a patch as
\* padded (1) only if every element of the patch is padded, by the pad mask
\* or by the pad value; a patch with any unpadded element is flagged valid (0).
C19_PatchPaddedOnlyIfAllPadded ==
    (fn = "_preprocess_input" /\ ~fn_ret.is_none) =>
        \A n \in 1..Len(fn_ret.val.patched_padding) :
            fn_ret.val.patched_padding[n]
                = IF \A k \in 1..fn_args.config.patch_len : ElementPadded(n, k)
                  THEN 1 ELSE 0

\* C19 happens: a patch with a padded and an unpadded element is flagged
\* valid, a patch padded by the mask and by the pad value is flagged padded.
C19_Witness ==
    /\ fn = "_preprocess_input"
    /\ ~fn_ret.is_none
    /\ Len(fn_ret.val.patched_padding) = 2
    /\ ElementPadded(1, 1) /\ ~ElementPadded(1, 2)
    /\ fn_ret.val.patched_padding[1] = 0
    /\ fn_args.input_ts[fn_args.config.patch_len + 1] = fn_args.config.pad_val
    /\ fn_args.input_padding[fn_args.config.patch_len + 1] = 0
    /\ fn_ret.val.patched_padding[2] = 1

\* C19 as claimed: a patch is flagged valid (0) only if every element of it
\* is unpadded, a patch with any padded element is flagged padded.
C19_PatchValidOnlyIfAllUnpadded ==
    (fn = "_preprocess_input" /\ ~fn_ret.is_none) =>
        \A n \in 1..Len(fn_ret.val.patched_padding) :
            fn_ret.val.patched_padding[n]
                = IF \E k \in 1..fn_args.config.patch_len : ElementPadded(n, k)
                  THEN 1 ELSE 0

\* forward has passed a window to the decoder: a decode step has run, or has
\* raised in the decoder
WindowPassed ==
    \/ pc \in {"loss", "returned"}
    \/ pc = "decode" /\ step_index >= 1
    \/ pc = "raised" /\ err \in {Some("RuntimeError"), Some("TypeError")}

\* the decode step raised in the decoder, before the running series grew
RaisedInDecoder ==
    pc = "raised" /\ err = Some("RuntimeError") /\ truncate_negative = Unread

\* the length of the running series when the last window was cut from it
RunningLen ==
    IF RaisedInDecoder THEN Len(final_out[1]) ELSE Len(final_out[1]) - output_patch_len

\* C21: at every decode step the value window and the pad-mask window passed
\* to the decoder have the same length and cover the same positions of the
\* running series: its last forecast_context_len positions, or all of them
\* when forecast_context_len is at least its length.
C21_WindowsAligned ==
    WindowPassed =>
        LET L == RunningLen
            k == IF fcontext_len >= L THEN L ELSE fcontext_len
            padding == Preprocess(inputs, freq, config.context_len, horizon_len).input_padding
        IN  \A b \in 1..Len(final_out) :
                /\ Len(input_ts[b]) = k
                /\ Len(input_padding[b]) = k
                /\ \A j \in 1..k :
                       /\ input_ts[b][j] = final_out[b][L - k + j]
                       /\ input_padding[b][j] = padding[b][L - k + j]

\* C21 happens: forward has returned after a decode step whose window was
\* shorter than the running series and held a padded and an unpadded value.
C21_Witness ==
    /\ pc = "returned"
    /\ fcontext_len < context_len
    /\ input_padding[1] = <<1, 0>>
    /\ input_ts[1][2] # 0

\* C22: for every batch of non-empty series and every forecast_context_len
\* >= 1 the check of the pad mask's length never fails: after _preprocess
\* every series has length context_len and every pad mask has length
\* context_len + horizon_len, and forward never raises the ValueError.
C22_PadCheckNeverFails ==
    /\ err # Some("ValueError")
    /\ pc = "check" =>
           /\ \A b \in 1..Len(input_ts) : Len(input_ts[b]) = config.context_len
           /\ \A b \in 1..Len(input_padding) :
                  Len(input_padding[b]) = config.context_len + horizon_len
           /\ ~PaddingMismatch(Len(input_padding[1]), Len(input_ts[1]), horizon_len)

\* C22 happens: the check has passed for a batch of a series shorter and a
\* series longer than context_len, under a forecast_context_len.
C22_Witness ==
    /\ pc = "decode"
    /\ step_index = 0
    /\ ~forecast_context_len.is_none
    /\ \E b \in 1..Len(call_inputs) : Len(call_inputs[b].data) < config.context_len
    /\ \E b \in 1..Len(inputs) : Len(inputs[b].data) > config.context_len

\* C23: in every result of forward, mean_predictions[b, t] is
\* full_predictions[b, t, 0], with or without decomposition, truncation of
\* negative values and the forecast on the context.
C23_MeanIsChannelZero ==
    pc = "returned" =>
        /\ Len(result.val.mean_predictions) = Len(result.val.full_predictions)
        /\ \A b \in 1..Len(result.val.mean_predictions) :
               /\ Len(result.val.mean_predictions[b]) = Len(result.val.full_predictions[b])
               /\ \A t \in 1..Len(result.val.mean_predictions[b]) :
                      result.val.mean_predictions[b][t]
                          = result.val.full_predictions[b][t][1]

\* C23 happens: forward has returned the sum of a trend and a residual
\* forecast, on the context too, with truncate_negative set.
C23_Witness ==
    /\ pc = "returned"
    /\ ~window_size.is_none
    /\ return_forecast_on_context.val
    /\ truncate_negative.val
    /\ Len(result.val.mean_predictions[1]) >= 2

\* patch n, counted from 1, has at least 3 unpadded values
HasThreeUnpadded(n) ==
    LET p == fn_args.config.patch_len
    IN  CountEq(SubSeq(fn_args.padding, (n - 1) * p + 1, n * p), 0) >= 3

\* C24: the forecast emitted from patch i of the decoder window depends only
\* on the values and pad flags of patches 0..i: for two inputs that agree on
\* patches 0..i and differ only in the values of a later patch j > i, the
\* output emitted from patch i is identical.  Patches are counted from 1 here.
C24_ForecastIgnoresLaterPatches ==
    (fn = "TimesFmModel.forward" /\ ~fn_ret.is_none) =>
        \A i \in 1..(fn_args.patch - 1) :
            fn_ret.val.fprop_outputs[i] = fn_ret.val.other_fprop_outputs[i]

\* C24 for the patches i at or after a patch with at least 3 unpadded
\* values, the patch the normalization statistics are taken from, which holds.
C24_CausalAfterTheStatsPatch ==
    (fn = "TimesFmModel.forward" /\ ~fn_ret.is_none) =>
        \A i \in 1..(fn_args.patch - 1) :
            (\E n \in 1..i : HasThreeUnpadded(n)) =>
                fn_ret.val.fprop_outputs[i] = fn_ret.val.other_fprop_outputs[i]

\* the two calls differ in the forecast emitted from the changed patch
C24_LaterPatchIsRead ==
    /\ fn = "TimesFmModel.forward"
    /\ ~fn_ret.is_none
    /\ HasThreeUnpadded(1)
    /\ fn_ret.val.fprop_outputs[1] = fn_ret.val.other_fprop_outputs[1]
    /\ fn_ret.val.fprop_outputs[fn_args.patch] # fn_ret.val.other_fprop_outputs[fn_args.patch]

====
